---- MODULE Spec2Model ----
(***************************************************************************)
(* Verification model of the may-pasok-ba suspension-prediction pipeline:  *)
(* risk tiers (src/src/weather/risk_tiers.py), the confusion-matrix        *)
(* engines (src/backfill/generate_prediction_logs.py and                   *)
(* src/backfill/analyze_performance.py) and the backfill feature builder   *)
(* (src/backfill/engineer_features.py).                                    *)
(*                                                                         *)
(* Conventions.  A Python float is modelled by an integer: probabilities   *)
(* in millionths (0.40 is 400000), weather readings in whole units.  A     *)
(* JSON value that may be null is a sequence: <<>> is None and <<v>> is    *)
(* the number v.  A date string "YYYY-MM-DD" is the tuple <<y, m, d>>.     *)
(* Each component has its own specification; the variables of the other    *)
(* components stay at their idle values.                                   *)
(***************************************************************************)
EXTENDS Integers, Sequences, FiniteSets, TLC

VARIABLES
    script,                \* the script whose run the state belongs to ("none": no run)
    tier_log,              \* risk tiers: the calls of get_risk_tier made so far
    predictions_with_actual, \* generate_prediction_logs: the list given to the metrics
    performance,           \* generate_prediction_logs: calculate_performance_metrics' result
    an_actuals,            \* analyze_performance: the actual-suspensions file
    an_predictions,        \* analyze_performance: the predictions file
    an_results,            \* analyze_performance: analyze_predictions' result
    an_metrics,            \* analyze_performance: calculate_metrics' result
    forecast_by_lgu_date,  \* engineer_features: the forecast file, by (lgu, date)
    pagasa_by_date,        \* engineer_features: the PAGASA status file, by date
    ef_run,                \* engineer_features: what the run produced
    name_log,              \* normalize_lgu_name: the calls made so far
    temporal_call,         \* temporal features: the date given and what each implementation returned
    match_actuals,         \* generate_prediction_logs.main: the actual-suspensions file, by (date, name)
    match_predictions,     \* generate_prediction_logs.main: predictions_raw
    match_run,             \* generate_prediction_logs.main: what the matching printed and wrote
    cl_args,               \* collect_and_log: the arguments and the date of the run
    cl_features,           \* collect_and_log: the features collected in step 1
    cl_run,                \* collect_and_log: what step 2 produced and logged
    pc_outcome,            \* pagasa_checker: how the parser subprocess ended
    pc_file,               \* pagasa_checker: the output file when it is read
    pc_status,             \* pagasa_checker: what check_typhoon_status returned
    bp_vectors,            \* backfill generate_predictions: the feature file
    bp_run,                \* backfill generate_predictions: what the run produced
    details_log,           \* risk tiers: the calls of get_tier_details made so far
    fw_call,               \* collect_historical_weather: the call of fetch_weather_for_lgu in progress
    cw_file,               \* collect_historical_weather: the output file (None: there is none)
    cw_run,                \* collect_historical_weather: the run in progress
    cw_fetched_before,     \* collect_historical_weather: the units that earlier runs fetched for every date
    up_db,                 \* upload_actual_suspensions: the table daily_predictions, by (date, unit)
    up_db_before,          \* upload_actual_suspensions: the table before the upload
    up_records,            \* upload_actual_suspensions: the outcome records
    up_run,                \* upload_actual_suspensions: what upload_to_database returned
    mn_pc,                 \* collect_and_log.main: the step the run is at
    mn_date,               \* collect_and_log.main: prediction_date
    mn_results,            \* collect_and_log.main: results, features and predictions
    mn_calls,              \* collect_and_log.main: the calls made so far, with their outcome
    mn_web,                \* collect_and_log.main: the files of web/predictions written by the run
    mn_exit                \* collect_and_log.main: the value returned

tierVars == <<tier_log>>
perfVars == <<predictions_with_actual, performance>>
anVars == <<an_actuals, an_predictions, an_results, an_metrics>>
efVars == <<forecast_by_lgu_date, pagasa_by_date, ef_run>>
nameVars == <<name_log>>
temporalVars == <<temporal_call>>
matchVars == <<match_actuals, match_predictions, match_run>>
clVars == <<cl_args, cl_features, cl_run>>
checkerVars == <<pc_outcome, pc_file, pc_status>>
batchVars == <<bp_vectors, bp_run>>
detailsVars == <<details_log>>
fetchVars == <<fw_call>>
collectVars == <<cw_file, cw_run, cw_fetched_before>>
uploadVars == <<up_db, up_db_before, up_records, up_run>>
mainVars == <<mn_pc, mn_date, mn_results, mn_calls, mn_web, mn_exit>>
vars == <<script, tierVars, perfVars, anVars, efVars, nameVars, temporalVars, matchVars, clVars, checkerVars, batchVars, detailsVars, fetchVars, collectVars, uploadVars, mainVars>>

\* What the actions of one component leave alone.
otherThanTier == <<perfVars, anVars, efVars, nameVars, temporalVars, matchVars, clVars, checkerVars, batchVars, detailsVars, fetchVars, collectVars, uploadVars, mainVars>>
otherThanPerf == <<tierVars, anVars, efVars, nameVars, temporalVars, matchVars, clVars, checkerVars, batchVars, detailsVars, fetchVars, collectVars, uploadVars, mainVars>>
otherThanAn == <<tierVars, perfVars, efVars, nameVars, temporalVars, matchVars, clVars, checkerVars, batchVars, detailsVars, fetchVars, collectVars, uploadVars, mainVars>>
otherThanEf == <<tierVars, perfVars, anVars, nameVars, temporalVars, matchVars, clVars, checkerVars, batchVars, detailsVars, fetchVars, collectVars, uploadVars, mainVars>>
otherThanName == <<tierVars, perfVars, anVars, efVars, temporalVars, matchVars, clVars, checkerVars, batchVars, detailsVars, fetchVars, collectVars, uploadVars, mainVars>>
otherThanTemporal == <<tierVars, perfVars, anVars, efVars, nameVars, matchVars, clVars, checkerVars, batchVars, detailsVars, fetchVars, collectVars, uploadVars, mainVars>>
otherThanMatch == <<tierVars, perfVars, anVars, efVars, nameVars, temporalVars, clVars, checkerVars, batchVars, detailsVars, fetchVars, collectVars, uploadVars, mainVars>>
otherThanCl == <<tierVars, perfVars, anVars, efVars, nameVars, temporalVars, matchVars, checkerVars, batchVars, detailsVars, fetchVars, collectVars, uploadVars, mainVars>>
otherThanChecker == <<tierVars, perfVars, anVars, efVars, nameVars, temporalVars, matchVars, clVars, batchVars, detailsVars, fetchVars, collectVars, uploadVars, mainVars>>
otherThanBatch == <<tierVars, perfVars, anVars, efVars, nameVars, temporalVars, matchVars, clVars, checkerVars, detailsVars, fetchVars, collectVars, uploadVars, mainVars>>
otherThanBatchEf == <<tierVars, perfVars, anVars, nameVars, temporalVars, matchVars, clVars, checkerVars, detailsVars, fetchVars, collectVars, uploadVars, mainVars>>
otherThanDetails == <<tierVars, perfVars, anVars, efVars, nameVars, temporalVars, matchVars, clVars, checkerVars, batchVars, fetchVars, collectVars, uploadVars, mainVars>>
otherThanFetch == <<tierVars, perfVars, anVars, efVars, nameVars, temporalVars, matchVars, clVars, checkerVars, batchVars, detailsVars, collectVars, uploadVars, mainVars>>
otherThanCollect == <<tierVars, perfVars, anVars, efVars, nameVars, temporalVars, matchVars, clVars, checkerVars, batchVars, detailsVars, fetchVars, uploadVars, mainVars>>
otherThanUpload == <<tierVars, perfVars, anVars, efVars, nameVars, temporalVars, matchVars, clVars, checkerVars, batchVars, detailsVars, fetchVars, collectVars, mainVars>>
otherThanMain == <<tierVars, perfVars, anVars, efVars, nameVars, temporalVars, matchVars, clVars, checkerVars, batchVars, detailsVars, fetchVars, collectVars, uploadVars>>

(***************************************************************************)
(* Bounds of the model.                                                    *)
(***************************************************************************)
ProbGrid == 20
MaxCalls == 2
MaxPreds == 3
MaxAnPreds == 4
DateSpan == 8
MaxArchive == 3
MaxVectors == 4

(***************************************************************************)
(* Risk tiers: src/src/weather/risk_tiers.py                               *)
(***************************************************************************)
ProbUnit == 1000 * 1000
ProbStep == 50 * 1000

TIER_THRESHOLDS == [green_max |-> 400000, orange_max |-> 550000]

\* The probabilities tried: a grid over [0, 1] and the neighbours of each
\* threshold.
ProbValues ==
    {k * ProbStep : k \in 0..ProbGrid}
        \cup {TIER_THRESHOLDS.green_max + e : e \in {-1, 0, 1}}
        \cup {TIER_THRESHOLDS.orange_max + e : e \in {-1, 0, 1}}

\* Mutant: the lower boundary closed on the wrong side.
get_risk_tier_closed(probability) ==
    IF probability <= TIER_THRESHOLDS.green_max THEN "GREEN"
    ELSE IF probability <= TIER_THRESHOLDS.orange_max THEN "ORANGE"
    ELSE "RED"

get_risk_tier(probability) ==
    IF probability < TIER_THRESHOLDS.green_max THEN "GREEN"
    ELSE IF probability < TIER_THRESHOLDS.orange_max THEN "ORANGE"
    ELSE "RED"

IdleTier == tier_log = <<>>

\* One call of get_risk_tier, recorded with its argument.
Classify ==
    /\ Len(tier_log) < MaxCalls
    /\ \E p \in ProbValues :
         tier_log' = Append(tier_log, [probability |-> p, tier |-> get_risk_tier(p)])
    /\ UNCHANGED <<script, otherThanTier>>

\* A new caller starts with an empty record of calls.
ResetTier ==
    /\ tier_log # <<>>
    /\ tier_log' = <<>>
    /\ UNCHANGED <<script, otherThanTier>>

NextTier == Classify \/ ResetTier

None == <<>>
Some(v) == <<v>>

\* dict.get(key, default)
Get(d, key, default) == IF key \in DOMAIN d THEN d[key] ELSE default

\* defaultdict(int)[key] += 1
Incr(d, key) ==
    [k \in DOMAIN d \cup {key} |->
        IF k = key THEN (IF key \in DOMAIN d THEN d[key] + 1 ELSE 1) ELSE d[k]]

\* The empty dict.
EmptyDict == [k \in {} |-> 0]

RECURSIVE GCD(_, _)
GCD(a, b) == IF b = 0 THEN a ELSE GCD(b, a % b)

\* A float that is the quotient of two counts is the exact fraction <<n, d>>
\* in lowest terms, d > 0; the int 0 of an else branch is <<0, 1>>.
Frac(n, d) == LET g == GCD(n, d) IN <<n \div g, d \div g>>
Zero == Frac(0, 1)

\* What a division by zero leaves: the exception, which every later
\* operation of the same function passes on.
ZeroDivisionError == <<>>

PyDiv(x, y) ==
    IF x = ZeroDivisionError \/ y = ZeroDivisionError THEN ZeroDivisionError
    ELSE IF y[1] = 0 THEN ZeroDivisionError
    ELSE Frac(x[1] * y[2], x[2] * y[1])

PyMul(x, y) ==
    IF x = ZeroDivisionError \/ y = ZeroDivisionError THEN ZeroDivisionError
    ELSE Frac(x[1] * y[1], x[2] * y[2])

PyAdd(x, y) ==
    IF x = ZeroDivisionError \/ y = ZeroDivisionError THEN ZeroDivisionError
    ELSE Frac(x[1] * y[2] + y[1] * x[2], x[2] * y[2])

\* x > 0, as a guard reads it (an exception on the way is not "> 0": the
\* function has ended).
Positive(x) == x # ZeroDivisionError /\ x[1] > 0

Whole(n) == Frac(n, 1)

\* round(x, 4) in ten-thousandths, round(x * 100, 2) in ten-thousandths of
\* the fraction: the nearest multiple, a tie to the even one.
RoundTo(x, scale) ==
    IF x = ZeroDivisionError THEN ZeroDivisionError
    ELSE LET q == (x[1] * scale) \div x[2]
             r == (x[1] * scale) % x[2]
         IN  IF 2 * r > x[2] THEN q + 1
             ELSE IF 2 * r < x[2] THEN q
             ELSE IF q % 2 = 0 THEN q ELSE q + 1

Round4(x) == RoundTo(x, 10000)

(***************************************************************************)
(* Confusion matrix of the dashboard log:                                  *)
(* src/backfill/generate_prediction_logs.py                                *)
(***************************************************************************)
PerfLgus == {"Manila", "Pasig"}
PerfTiers == {"alert", "suspension"}

\* A prediction with its outcome attached: actual_suspended is None,
\* Some(TRUE) or Some(FALSE).
PredictionsWithActual ==
    [lgu : PerfLgus, tier : PerfTiers, predicted_suspended : BOOLEAN,
     actual_suspended : {None, Some(TRUE), Some(FALSE)}]

\* defaultdict(lambda: {'total': 0, ...})
NewLguStats == [total |-> 0, correct |-> 0, tp |-> 0, fp |-> 0, tn |-> 0, fn |-> 0]

LguStat(stats, lgu) == IF lgu \in DOMAIN stats THEN stats[lgu] ELSE NewLguStats

\* Mutant: the store keeps the unit just counted and forgets the others.
SetLguStat_single(stats, lgu, st) == [k \in {lgu} |-> st]

\* lgu_stats[lgu] = st
SetLguStat(stats, lgu, st) ==
    [k \in DOMAIN stats \cup {lgu} |-> IF k = lgu THEN st ELSE stats[k]]

\* The counters before the loop (lines 115-128).
PerfCounters ==
    [tp |-> 0, fp |-> 0, tn |-> 0, fn |-> 0,
     correct_predictions |-> 0, total_predictions |-> 0,
     tier_counts |-> EmptyDict, tier_correct |-> EmptyDict, lgu_stats |-> EmptyDict]

\* The loop body for a prediction whose outcome is known (lines 135-163).
PerfCount(c, pred) ==
    LET predicted == pred.predicted_suspended
        actual == pred.actual_suspended # None /\ pred.actual_suspended[1]
        lgu == pred.lgu
        tier == pred.tier
        bucket == IF predicted /\ actual THEN "tp"
                  ELSE IF predicted /\ ~actual THEN "fp"
                  ELSE IF ~predicted /\ ~actual THEN "tn"
                  ELSE "fn"
        is_correct == (predicted = actual)
        st0 == LguStat(c.lgu_stats, lgu)
        st1 == [st0 EXCEPT ![bucket] = @ + 1]
        st2 == IF is_correct THEN [st1 EXCEPT !.correct = @ + 1] ELSE st1
        st3 == [st2 EXCEPT !.total = @ + 1]
    IN  [c EXCEPT
            ![bucket] = @ + 1,
            !.total_predictions = @ + 1,
            !.correct_predictions = IF is_correct THEN @ + 1 ELSE @,
            !.tier_correct = IF is_correct THEN Incr(@, tier) ELSE @,
            !.tier_counts = Incr(@, tier),
            !.lgu_stats = SetLguStat(@, lgu, st3)]

\* Mutant: the loop body without the skip of a prediction that has no
\* outcome (None then reads as "not suspended").
PerfStep_noskip(c, pred) == PerfCount(c, pred)

\* The loop body (lines 130-163).
PerfStep(c, pred) ==
    IF pred.actual_suspended = None THEN c ELSE PerfCount(c, pred)

RECURSIVE PerfLoop(_, _)
PerfLoop(c, preds) ==
    IF preds = <<>> THEN c ELSE PerfLoop(PerfStep(c, Head(preds)), Tail(preds))

\* Lines 165-224.  The metrics are kept as round() leaves them: in
\* ten-thousandths; accuracy_percentage in hundredths of a percent.
calculate_performance_metrics(preds) ==
    LET c == PerfLoop(PerfCounters, preds)
        accuracy == IF c.total_predictions > 0
                    THEN PyDiv(Whole(c.correct_predictions), Whole(c.total_predictions))
                    ELSE Zero
        precision == IF c.tp + c.fp > 0 THEN PyDiv(Whole(c.tp), Whole(c.tp + c.fp)) ELSE Zero
        recall == IF c.tp + c.fn > 0 THEN PyDiv(Whole(c.tp), Whole(c.tp + c.fn)) ELSE Zero
        f1_score == IF Positive(PyAdd(precision, recall))
                    THEN PyDiv(PyMul(Whole(2), PyMul(precision, recall)),
                               PyAdd(precision, recall))
                    ELSE Zero
        fpr == IF c.fp + c.tn > 0 THEN PyDiv(Whole(c.fp), Whole(c.fp + c.tn)) ELSE Zero
        tier_accuracy ==
            [t \in DOMAIN c.tier_counts |->
                IF c.tier_counts[t] > 0
                THEN PyDiv(Whole(Get(c.tier_correct, t, 0)), Whole(c.tier_counts[t]))
                ELSE Zero]
        lgu_metrics ==
            [l \in {k \in DOMAIN c.lgu_stats : c.lgu_stats[k].total # 0} |->
                LET st == c.lgu_stats[l]
                IN  [accuracy |-> Round4(PyDiv(Whole(st.correct), Whole(st.total))),
                     precision |-> Round4(IF st.tp + st.fp > 0
                                          THEN PyDiv(Whole(st.tp), Whole(st.tp + st.fp))
                                          ELSE Zero),
                     recall |-> Round4(IF st.tp + st.fn > 0
                                       THEN PyDiv(Whole(st.tp), Whole(st.tp + st.fn))
                                       ELSE Zero),
                     total_predictions |-> st.total,
                     correct |-> st.correct,
                     tp |-> st.tp, fp |-> st.fp, tn |-> st.tn, fn |-> st.fn]]
        raised == ZeroDivisionError \in {accuracy, precision, recall, f1_score, fpr}
    IN  IF raised THEN [raised |-> TRUE]
        ELSE [raised |-> FALSE,
              confusion_matrix |->
                  [true_positive |-> c.tp, false_positive |-> c.fp,
                   true_negative |-> c.tn, false_negative |-> c.fn],
              overall_metrics |->
                  [accuracy |-> Round4(accuracy), precision |-> Round4(precision),
                   recall |-> Round4(recall), f1_score |-> Round4(f1_score),
                   false_positive_rate |-> Round4(fpr)],
              prediction_summary |->
                  [total_predictions |-> c.total_predictions,
                   correct_predictions |-> c.correct_predictions,
                   incorrect_predictions |-> c.total_predictions - c.correct_predictions,
                   accuracy_percentage |-> RoundTo(PyMul(accuracy, Whole(100)), 100)],
              tier_accuracy |-> [t \in DOMAIN tier_accuracy |-> Round4(tier_accuracy[t])],
              lgu_metrics |-> lgu_metrics]

NotRun == [run |-> FALSE]

IdlePerf == predictions_with_actual = <<>> /\ performance = NotRun

\* One more prediction of the list that main hands to the metrics.
PerfLoad ==
    /\ script \in {"none", "generate_prediction_logs"}
    /\ performance = NotRun
    /\ Len(predictions_with_actual) < MaxPreds
    /\ \E pred \in PredictionsWithActual :
         predictions_with_actual' = Append(predictions_with_actual, pred)
    /\ script' = "generate_prediction_logs"
    /\ UNCHANGED <<performance, otherThanPerf>>

\* performance = calculate_performance_metrics(predictions_with_actual)
CalculatePerformance ==
    /\ script \in {"none", "generate_prediction_logs"}
    /\ performance = NotRun
    /\ performance' = calculate_performance_metrics(predictions_with_actual)
    /\ script' = "generate_prediction_logs"
    /\ UNCHANGED <<predictions_with_actual, otherThanPerf>>

\* The script ends; its memory is gone.
PerfExit ==
    /\ script = "generate_prediction_logs"
    /\ performance # NotRun
    /\ script' = "none"
    /\ predictions_with_actual' = <<>>
    /\ performance' = NotRun
    /\ UNCHANGED <<otherThanPerf>>

NextPerf == PerfLoad \/ CalculatePerformance \/ PerfExit

(***************************************************************************)
(* Confusion matrix of the analysis report:                                *)
(* src/backfill/analyze_performance.py                                     *)
(*                                                                         *)
(* The actual-suspensions file is kept flat: (date, lgu) |-> details, for  *)
(* the pairs the nested 'suspensions' / 'suspension_details' loops visit.  *)
(* A prediction carries the fields the classification reads; its           *)
(* probability and risk level are copied to the result lists unread.       *)
(***************************************************************************)
AnDates == {<<2025, 9, 22>>, <<2025, 9, 23>>}
AnLgus == {"Manila", "Pasig"}
AnKeys == (AnDates \X AnLgus) \ {<<<<2025, 9, 23>>, "Pasig">>}

ActualsFiles ==
    UNION {[K -> {[suspended |-> TRUE], [suspended |-> FALSE]}] : K \in SUBSET AnKeys}

AnPredictions ==
    {[prediction_date |-> k[1], lgu |-> k[2], predicted_suspended |-> b] :
        k \in AnKeys, b \in BOOLEAN}

\* Lines 30-45.
create_actual_suspension_set(actuals) ==
    {k \in DOMAIN actuals : Get(actuals[k], "suspended", FALSE)}

\* defaultdict(lambda: {'tp': 0, ...}) of lines 57-61.
NewDateAnalysis ==
    [tp |-> 0, fp |-> 0, fn |-> 0, tn |-> 0, predicted_lgus |-> <<>>, actual_lgus |-> <<>>]

DateStat(da, date) == IF date \in DOMAIN da THEN da[date] ELSE NewDateAnalysis

SetDateStat(da, date, st) ==
    [k \in DOMAIN da \cup {date} |-> IF k = date THEN st ELSE da[k]]

AnStart == [tp |-> <<>>, fp |-> <<>>, fn |-> <<>>, tn |-> <<>>, date_analysis |-> EmptyDict]

\* The loop body (lines 64-119).
AnStep(r, pred, actual_suspensions) ==
    LET date == pred.prediction_date
        lgu == pred.lgu
        predicted_suspension == pred.predicted_suspended
        actually_suspended == <<date, lgu>> \in actual_suspensions
        entry == [date |-> date, lgu |-> lgu]
        st == DateStat(r.date_analysis, date)
    IN  IF predicted_suspension /\ actually_suspended THEN
            [r EXCEPT !.tp = Append(@, entry),
                      !.date_analysis = SetDateStat(@, date,
                          [st EXCEPT !.tp = @ + 1,
                                     !.predicted_lgus = Append(@, lgu),
                                     !.actual_lgus = Append(@, lgu)])]
        ELSE IF predicted_suspension /\ ~actually_suspended THEN
            [r EXCEPT !.fp = Append(@, entry),
                      !.date_analysis = SetDateStat(@, date,
                          [st EXCEPT !.fp = @ + 1,
                                     !.predicted_lgus = Append(@, lgu)])]
        ELSE IF ~predicted_suspension /\ actually_suspended THEN
            [r EXCEPT !.fn = Append(@, entry),
                      !.date_analysis = SetDateStat(@, date,
                          [st EXCEPT !.fn = @ + 1,
                                     !.actual_lgus = Append(@, lgu)])]
        ELSE
            [r EXCEPT !.tn = Append(@, entry),
                      !.date_analysis = SetDateStat(@, date,
                          [st EXCEPT !.tn = @ + 1])]

RECURSIVE AnLoop(_, _, _)
AnLoop(r, preds, actual_suspensions) ==
    IF preds = <<>> THEN r
    ELSE AnLoop(AnStep(r, Head(preds), actual_suspensions), Tail(preds), actual_suspensions)

\* Lines 47-127.
analyze_predictions(predictions, actual_suspensions) ==
    AnLoop(AnStart, predictions, actual_suspensions)

\* Mutant: specificity without its guard.
Specificity_unguarded(tn_count, fp_count) ==
    PyDiv(Whole(tn_count), Whole(tn_count + fp_count))

\* Line 149.
Specificity(tn_count, fp_count) ==
    IF tn_count + fp_count > 0
    THEN PyDiv(Whole(tn_count), Whole(tn_count + fp_count))
    ELSE Zero

\* Mutant: F2 weighted as F1.
FBeta_f1(precision, recall) ==
    IF Positive(PyAdd(precision, recall))
    THEN PyDiv(PyMul(Whole(2), PyMul(precision, recall)), PyAdd(precision, recall))
    ELSE Zero

\* Lines 145-146, beta = 2.
FBeta(precision, recall) ==
    IF Positive(PyAdd(precision, recall))
    THEN PyDiv(PyMul(Whole(1 + 2 * 2), PyMul(precision, recall)),
               PyAdd(PyMul(Whole(2 * 2), precision), recall))
    ELSE Zero

\* Lines 129-163.
calculate_metrics(results) ==
    LET tp_count == Len(results.tp)
        fp_count == Len(results.fp)
        fn_count == Len(results.fn)
        tn_count == Len(results.tn)
        total == tp_count + fp_count + fn_count + tn_count
        accuracy == IF total > 0 THEN PyDiv(Whole(tp_count + tn_count), Whole(total)) ELSE Zero
        precision == IF tp_count + fp_count > 0
                     THEN PyDiv(Whole(tp_count), Whole(tp_count + fp_count)) ELSE Zero
        recall == IF tp_count + fn_count > 0
                  THEN PyDiv(Whole(tp_count), Whole(tp_count + fn_count)) ELSE Zero
        f1 == IF Positive(PyAdd(precision, recall))
              THEN PyDiv(PyMul(Whole(2), PyMul(precision, recall)), PyAdd(precision, recall))
              ELSE Zero
        f2 == FBeta(precision, recall)
        specificity == Specificity(tn_count, fp_count)
        raised == ZeroDivisionError \in {accuracy, precision, recall, f1, f2, specificity}
    IN  IF raised THEN [raised |-> TRUE]
        ELSE [raised |-> FALSE,
              total_predictions |-> total,
              true_positives |-> tp_count,
              false_positives |-> fp_count,
              false_negatives |-> fn_count,
              true_negatives |-> tn_count,
              accuracy |-> accuracy,
              precision |-> precision,
              recall |-> recall,
              f1_score |-> f1,
              f2_score |-> f2,
              specificity |-> specificity]

IdleAn ==
    /\ an_actuals = EmptyDict
    /\ an_predictions = <<>>
    /\ an_results = NotRun
    /\ an_metrics = NotRun

\* The actual-suspensions file is written.
AnLoadActuals ==
    /\ script = "none"
    /\ \E a \in ActualsFiles : an_actuals' = a
    /\ script' = "analyze_performance"
    /\ UNCHANGED <<an_predictions, an_results, an_metrics, otherThanAn>>

\* One more prediction of the predictions file.
AnLoadPrediction ==
    /\ script = "analyze_performance"
    /\ an_results = NotRun
    /\ Len(an_predictions) < MaxAnPreds
    /\ \E pred \in AnPredictions : an_predictions' = Append(an_predictions, pred)
    /\ UNCHANGED <<script, an_actuals, an_results, an_metrics, otherThanAn>>

\* main (lines 288-329): the set, the analysis, the metrics.
AnalyzePerformance ==
    /\ script = "analyze_performance"
    /\ an_results = NotRun
    /\ LET actual_suspensions == create_actual_suspension_set(an_actuals)
           results == analyze_predictions(an_predictions, actual_suspensions)
       IN  /\ an_results' = results
           /\ an_metrics' = calculate_metrics(results)
    /\ UNCHANGED <<script, an_actuals, an_predictions, otherThanAn>>

\* The script ends.
AnExit ==
    /\ script = "analyze_performance"
    /\ an_results # NotRun
    /\ script' = "none"
    /\ an_actuals' = EmptyDict
    /\ an_predictions' = <<>>
    /\ an_results' = NotRun
    /\ an_metrics' = NotRun
    /\ UNCHANGED <<otherThanAn>>

NextAnalyze == AnLoadActuals \/ AnLoadPrediction \/ AnalyzePerformance \/ AnExit

(***************************************************************************)
(* C2: in calculate_performance_metrics TP+FP+FN+TN equals                  *)
(* total_predictions and the number of predictions whose actual_suspended  *)
(* is not None; a prediction with actual_suspended = None changes none of  *)
(* the four counts (each count is the recount over the known outcomes).    *)
(***************************************************************************)
PerfKnown == {i \in DOMAIN predictions_with_actual :
                 predictions_with_actual[i].actual_suspended # None}

PerfRecount(predicted, actual) ==
    Cardinality({i \in PerfKnown :
        /\ predictions_with_actual[i].predicted_suspended = predicted
        /\ predictions_with_actual[i].actual_suspended = Some(actual)})

C2_CountsAreKnownOutcomes ==
    performance # NotRun =>
        /\ ~performance.raised
        /\ LET cm == performance.confusion_matrix
               total == performance.prediction_summary.total_predictions
           IN  /\ cm.true_positive + cm.false_positive
                      + cm.false_negative + cm.true_negative = total
               /\ total = Cardinality(PerfKnown)
               /\ cm.true_positive = PerfRecount(TRUE, TRUE)
               /\ cm.false_positive = PerfRecount(TRUE, FALSE)
               /\ cm.false_negative = PerfRecount(FALSE, TRUE)
               /\ cm.true_negative = PerfRecount(FALSE, FALSE)

C2_Witness ==
    /\ performance # NotRun
    /\ Len(predictions_with_actual) = 3
    /\ Cardinality(PerfKnown) = 2
    /\ performance.prediction_summary.total_predictions = 2

(***************************************************************************)
(* C3: in analyze_predictions a prediction whose (date, unit) has no       *)
(* recorded actual outcome is in none of the TP, FP, FN, TN lists.         *)
(* The code does not keep this (counterexample).                           *)
(***************************************************************************)
AnCounted ==
    {<<e.date, e.lgu>> : e \in
        {an_results.tp[i] : i \in DOMAIN an_results.tp}
            \cup {an_results.fp[i] : i \in DOMAIN an_results.fp}
            \cup {an_results.fn[i] : i \in DOMAIN an_results.fn}
            \cup {an_results.tn[i] : i \in DOMAIN an_results.tn}}

C3_UnknownOutcomeExcluded ==
    an_results # NotRun =>
        /\ AnCounted \subseteq DOMAIN an_actuals
        /\ Len(an_results.tp) + Len(an_results.fp)
               + Len(an_results.fn) + Len(an_results.tn)
           = Cardinality({i \in DOMAIN an_predictions :
                 <<an_predictions[i].prediction_date, an_predictions[i].lgu>>
                     \in DOMAIN an_actuals})

(***************************************************************************)
(* C4: calculate_metrics never raises and gives exactly 0 for accuracy,    *)
(* precision, recall, F1, F2 and specificity whenever that metric's own    *)
(* denominator is 0; likewise accuracy, precision, recall, F1 and the      *)
(* false-positive rate of calculate_performance_metrics.                   *)
(***************************************************************************)
C4_ZeroDenominators ==
    /\ an_metrics # NotRun =>
         /\ ~an_metrics.raised
         /\ LET tp == an_metrics.true_positives
                fp == an_metrics.false_positives
                fn == an_metrics.false_negatives
                tn == an_metrics.true_negatives
            IN  /\ (tp + fp + fn + tn = 0) => an_metrics.accuracy = <<0, 1>>
                /\ (tp + fp = 0) => an_metrics.precision = <<0, 1>>
                /\ (tp + fn = 0) => an_metrics.recall = <<0, 1>>
                /\ (an_metrics.precision[1] + an_metrics.recall[1] = 0)
                       => an_metrics.f1_score = <<0, 1>>
                /\ (4 * an_metrics.precision[1] + an_metrics.recall[1] = 0)
                       => an_metrics.f2_score = <<0, 1>>
                /\ (tn + fp = 0) => an_metrics.specificity = <<0, 1>>
    /\ performance # NotRun =>
         /\ ~performance.raised
         /\ LET cm == performance.confusion_matrix
                om == performance.overall_metrics
            IN  /\ (performance.prediction_summary.total_predictions = 0)
                       => om.accuracy = 0
                /\ (cm.true_positive + cm.false_positive = 0) => om.precision = 0
                /\ (cm.true_positive + cm.false_negative = 0) => om.recall = 0
                /\ (cm.true_positive = 0) => om.f1_score = 0
                /\ (cm.false_positive + cm.true_negative = 0)
                       => om.false_positive_rate = 0

\* Two missed suspensions and nothing else: precision and specificity have
\* denominator 0, recall has not.
C4_Witness ==
    /\ an_metrics # NotRun
    /\ ~an_metrics.raised
    /\ an_metrics.false_negatives = 2
    /\ an_metrics.total_predictions = 2
    /\ an_metrics.precision = <<0, 1>>
    /\ an_metrics.specificity = <<0, 1>>

(***************************************************************************)
(* C5: with non-zero denominators calculate_metrics gives                  *)
(* accuracy = (TP+TN)/(TP+FP+FN+TN), precision = TP/(TP+FP),               *)
(* recall = TP/(TP+FN), F1 = 2PR/(P+R), F2 = 5PR/(4P+R) and                *)
(* specificity = TN/(TN+FP); the four pairs (T,T),(T,F),(F,T),(F,F) give   *)
(* TP=FP=FN=TN=1 and accuracy, precision, recall, F1, specificity 0.5.     *)
(* Fractions are compared by cross-multiplication; F1 and F2 are also      *)
(* compared with their closed forms 2TP/(2TP+FP+FN), 5TP/(5TP+4FN+FP).     *)
(***************************************************************************)
SameFraction(x, n, d) == x[1] * d = n * x[2]

\* The (predicted, actual) pairs of the analysis, read off the two files.
AnPairs ==
    [i \in DOMAIN an_predictions |->
        LET k == <<an_predictions[i].prediction_date, an_predictions[i].lgu>>
        IN  <<an_predictions[i].predicted_suspended,
              k \in DOMAIN an_actuals /\ an_actuals[k].suspended>>]

C5_MetricFormulas ==
    an_metrics # NotRun =>
        /\ ~an_metrics.raised
        /\ LET tp == an_metrics.true_positives
               fp == an_metrics.false_positives
               fn == an_metrics.false_negatives
               tn == an_metrics.true_negatives
               P == an_metrics.precision
               R == an_metrics.recall
               F1 == an_metrics.f1_score
               F2 == an_metrics.f2_score
           IN  /\ tp = Len(an_results.tp) /\ fp = Len(an_results.fp)
               /\ fn = Len(an_results.fn) /\ tn = Len(an_results.tn)
               /\ (tp + fp + fn + tn > 0)
                      => SameFraction(an_metrics.accuracy, tp + tn, tp + fp + fn + tn)
               /\ (tp + fp > 0) => SameFraction(P, tp, tp + fp)
               /\ (tp + fn > 0) => SameFraction(R, tp, tp + fn)
               /\ (tn + fp > 0) => SameFraction(an_metrics.specificity, tn, tn + fp)
               /\ (tp > 0) =>
                    \* F1 * (P + R) = 2 * P * R
                    /\ F1[1] * (P[1] * R[2] + R[1] * P[2]) * P[2] * R[2]
                           = 2 * P[1] * R[1] * F1[2] * P[2] * R[2]
                    \* F2 * (4P + R) = 5 * P * R
                    /\ F2[1] * (4 * P[1] * R[2] + R[1] * P[2]) * P[2] * R[2]
                           = 5 * P[1] * R[1] * F2[2] * P[2] * R[2]
                    /\ SameFraction(F1, 2 * tp, 2 * tp + fp + fn)
                    /\ SameFraction(F2, 5 * tp, 5 * tp + 4 * fn + fp)
               /\ (AnPairs = <<<<TRUE, TRUE>>, <<TRUE, FALSE>>,
                               <<FALSE, TRUE>>, <<FALSE, FALSE>>>>)
                      => /\ tp = 1 /\ fp = 1 /\ fn = 1 /\ tn = 1
                         /\ an_metrics.accuracy = <<1, 2>>
                         /\ P = <<1, 2>>
                         /\ R = <<1, 2>>
                         /\ F1 = <<1, 2>>
                         /\ an_metrics.specificity = <<1, 2>>

C5_Witness ==
    /\ an_metrics # NotRun
    /\ AnPairs = <<<<TRUE, TRUE>>, <<TRUE, FALSE>>, <<FALSE, TRUE>>, <<FALSE, FALSE>>>>
    /\ an_metrics.accuracy = <<1, 2>>
    /\ an_metrics.f1_score = <<1, 2>>

(***************************************************************************)
(* Feature engineering: src/backfill/engineer_features.py                  *)
(*                                                                         *)
(* Weather readings are whole numbers (30.0 is 30); the flood-risk score   *)
(* is in tenths (0.5 is 5).  A forecast record is a dict: a weather        *)
(* variable is a key of it or not, and its value is None or Some(v).       *)
(***************************************************************************)

\* datetime: the proleptic Gregorian calendar.
IsLeap(y) == (y % 4 = 0) /\ ((y % 100 # 0) \/ (y % 400 = 0))

DaysInMonth(y, m) ==
    IF m = 2 THEN (IF IsLeap(y) THEN 29 ELSE 28)
    ELSE IF m \in {4, 6, 9, 11} THEN 30 ELSE 31

RECURSIVE DaysBeforeMonth(_, _)
DaysBeforeMonth(y, m) ==
    IF m = 1 THEN 0 ELSE DaysBeforeMonth(y, m - 1) + DaysInMonth(y, m - 1)

DaysBeforeYear(y) ==
    (y - 1) * 365 + ((y - 1) \div 4) - ((y - 1) \div 100) + ((y - 1) \div 400)

\* datetime.strptime(date_str, "%Y-%m-%d"), as the day's ordinal.
ToOrdinal(date) == DaysBeforeYear(date[1]) + DaysBeforeMonth(date[1], date[2]) + date[3]

\* dt - timedelta(days=1)
PrevDay(date) ==
    IF date[3] > 1 THEN <<date[1], date[2], date[3] - 1>>
    ELSE IF date[2] > 1 THEN <<date[1], date[2] - 1, DaysInMonth(date[1], date[2] - 1)>>
    ELSE <<date[1] - 1, 12, 31>>

\* (dt - timedelta(days=i)).strftime("%Y-%m-%d")
RECURSIVE MinusDays(_, _)
MinusDays(date, i) == IF i = 0 THEN date ELSE MinusDays(PrevDay(date), i - 1)

\* dt.weekday(): Monday is 0.
Weekday(date) == (ToOrdinal(date) + 6) % 7

\* sorted([...]) of lines 38-43.
METRO_MANILA_LGUS ==
    <<"Caloocan", "Las Piñas", "Makati", "Malabon", "Mandaluyong", "Manila",
      "Marikina", "Muntinlupa", "Navotas", "Parañaque", "Pasay", "Pasig",
      "Pateros", "Quezon City", "San Juan", "Taguig", "Valenzuela">>

IndexOf(seq, x) == CHOOSE i \in DOMAIN seq : seq[i] = x

\* Lines 46-50: enumerate() counts from 0; the two mojibake spellings share
\* the index of their unit.
LGU_ID_MAP ==
    [l \in {METRO_MANILA_LGUS[i] : i \in DOMAIN METRO_MANILA_LGUS}
            \cup {"Las PiÃ±as", "ParaÃ±aque"} |->
        IF l = "Las PiÃ±as" THEN IndexOf(METRO_MANILA_LGUS, "Las Piñas") - 1
        ELSE IF l = "ParaÃ±aque" THEN IndexOf(METRO_MANILA_LGUS, "Parañaque") - 1
        ELSE IndexOf(METRO_MANILA_LGUS, l) - 1]

\* Lines 53-55: no holiday is listed.
HOLIDAYS == {}

\* x or default
PyOr(x, default) == IF x = None \/ x[1] = 0 THEN default ELSE x

\* Lines 90-103.
calculate_temporal_features(date_str) ==
    LET month == date_str[2]
        weekday == Weekday(date_str)
    IN  [year |-> Some(date_str[1]),
         month |-> Some(month),
         day |-> Some(date_str[3]),
         day_of_week |-> Some(weekday),
         is_rainy_season |-> Some(IF month \in {6, 7, 8, 9, 10, 11} THEN 1 ELSE 0),
         month_from_sy_start |-> Some((month - 6) % 12),
         is_holiday |-> Some(IF date_str \in HOLIDAYS THEN 1 ELSE 0),
         is_school_day |-> Some(IF weekday < 5 /\ date_str \notin HOLIDAYS THEN 1 ELSE 0)]

\* if t1_data: a missing key gives None, and a dict is true unless empty.
Present(d, key) == key \in DOMAIN d /\ DOMAIN d[key] # {}

\* t1_data.get(key, default) of lines 131-140.
HistT1Value(t1_data, key, default) == Get(t1_data, key, Some(default))

\* Mutant: every default is 0.0.
HistT1Defaults_zero ==
    [hist_precipitation_sum_t1 |-> Some(0),
     hist_wind_speed_max_t1 |-> Some(0),
     hist_wind_gusts_max_t1 |-> Some(0),
     hist_pressure_msl_min_t1 |-> Some(0),
     hist_temperature_max_t1 |-> Some(0),
     hist_relative_humidity_mean_t1 |-> Some(0),
     hist_cloud_cover_max_t1 |-> Some(0),
     hist_dew_point_mean_t1 |-> Some(0),
     hist_apparent_temperature_max_t1 |-> Some(0),
     hist_weather_code_t1 |-> Some(0)]

\* Lines 143-155: the first day has no history.
HistT1Defaults ==
    [hist_precipitation_sum_t1 |-> Some(0),
     hist_wind_speed_max_t1 |-> Some(0),
     hist_wind_gusts_max_t1 |-> Some(0),
     hist_pressure_msl_min_t1 |-> Some(1010),
     hist_temperature_max_t1 |-> Some(30),
     hist_relative_humidity_mean_t1 |-> Some(70),
     hist_cloud_cover_max_t1 |-> Some(50),
     hist_dew_point_mean_t1 |-> Some(24),
     hist_apparent_temperature_max_t1 |-> Some(30),
     hist_weather_code_t1 |-> Some(0)]

\* Lines 122-155.
HistT1(lgu, date_str, forecast) ==
    LET t1_key == <<lgu, MinusDays(date_str, 1)>>
    IN  IF Present(forecast, t1_key) THEN
            LET t1_data == forecast[t1_key]
            IN  [hist_precipitation_sum_t1 |-> HistT1Value(t1_data, "precipitation_sum", 0),
                 hist_wind_speed_max_t1 |-> HistT1Value(t1_data, "wind_speed_10m_max", 0),
                 hist_wind_gusts_max_t1 |-> HistT1Value(t1_data, "wind_gusts_10m_max", 0),
                 hist_pressure_msl_min_t1 |-> HistT1Value(t1_data, "pressure_msl_min", 1010),
                 hist_temperature_max_t1 |-> HistT1Value(t1_data, "temperature_2m_max", 30),
                 hist_relative_humidity_mean_t1 |->
                     HistT1Value(t1_data, "relative_humidity_2m_mean", 70),
                 hist_cloud_cover_max_t1 |-> HistT1Value(t1_data, "cloud_cover_max", 50),
                 hist_dew_point_mean_t1 |-> HistT1Value(t1_data, "dew_point_2m_mean", 24),
                 hist_apparent_temperature_max_t1 |->
                     HistT1Value(t1_data, "apparent_temperature_max", 30),
                 hist_weather_code_t1 |-> HistT1Value(t1_data, "weather_code", 0)]
        ELSE HistT1Defaults

\* Mutant: the look-back starts at the target date itself.
LookbackDays_from0 == 0..6

\* range(1, 8) of line 162.
LookbackDays == 1..7

\* The values appended while i runs through `days` in ascending order
\* (lines 162-174): a day with no record appends nothing.
RECURSIVE PastValues(_, _, _, _, _)
PastValues(lgu, date_str, forecast, key, days) ==
    IF days = {} THEN <<>>
    ELSE LET i == CHOOSE d \in days : \A e \in days : d <= e
             past_key == <<lgu, MinusDays(date_str, i)>>
             rest == PastValues(lgu, date_str, forecast, key, days \ {i})
         IN  IF Present(forecast, past_key)
             THEN <<PyOr(Get(forecast[past_key], key, Some(0)), Some(0))[1]>> \o rest
             ELSE rest

RECURSIVE SumSeq(_)
SumSeq(q) == IF q = <<>> THEN 0 ELSE Head(q) + SumSeq(Tail(q))

RECURSIVE MaxSeq(_)
MaxSeq(q) ==
    IF Len(q) = 1 THEN Head(q)
    ELSE LET m == MaxSeq(Tail(q)) IN IF Head(q) > m THEN Head(q) ELSE m

\* Lines 157-180.
HistAggregates(lgu, date_str, forecast) ==
    LET precip_3d == PastValues(lgu, date_str, forecast, "precipitation_sum",
                                {i \in LookbackDays : i <= 3})
        precip_7d == PastValues(lgu, date_str, forecast, "precipitation_sum", LookbackDays)
        wind_7d == PastValues(lgu, date_str, forecast, "wind_speed_10m_max", LookbackDays)
    IN  [hist_precip_sum_3d |-> Some(IF precip_3d # <<>> THEN SumSeq(precip_3d) ELSE 0),
         hist_precip_sum_7d |-> Some(IF precip_7d # <<>> THEN SumSeq(precip_7d) ELSE 0),
         hist_wind_max_7d |-> Some(IF wind_7d # <<>> THEN MaxSeq(wind_7d) ELSE 0)]

\* {**hist_t1, **hist_aggregates}, features.update(...)
Update(f, g) == g @@ f

\* Lines 106-182.
calculate_historical_features(lgu, date_str, forecast) ==
    Update(HistT1(lgu, date_str, forecast), HistAggregates(lgu, date_str, forecast))

\* forecast_record.get(key, default) or default
FcstValue(forecast_record, key, default) ==
    PyOr(Get(forecast_record, key, Some(default)), Some(default))

\* Mutant: CAPE is left out of the forecast features.
calculate_forecast_features_nocape(forecast_record) ==
    [fcst_precipitation_sum |-> FcstValue(forecast_record, "precipitation_sum", 0),
     fcst_precipitation_hours |-> FcstValue(forecast_record, "precipitation_hours", 0),
     fcst_wind_speed_max |-> FcstValue(forecast_record, "wind_speed_10m_max", 0),
     fcst_wind_gusts_max |-> FcstValue(forecast_record, "wind_gusts_10m_max", 0),
     fcst_pressure_msl_min |-> FcstValue(forecast_record, "pressure_msl_min", 1010),
     fcst_temperature_max |-> FcstValue(forecast_record, "temperature_2m_max", 30),
     fcst_relative_humidity_mean |->
         FcstValue(forecast_record, "relative_humidity_2m_mean", 70),
     fcst_cloud_cover_max |-> FcstValue(forecast_record, "cloud_cover_max", 50),
     fcst_dew_point_mean |-> FcstValue(forecast_record, "dew_point_2m_mean", 24)]

\* Lines 185-206.
calculate_forecast_features(forecast_record) ==
    [fcst_precipitation_sum |-> FcstValue(forecast_record, "precipitation_sum", 0),
     fcst_precipitation_hours |-> FcstValue(forecast_record, "precipitation_hours", 0),
     fcst_wind_speed_max |-> FcstValue(forecast_record, "wind_speed_10m_max", 0),
     fcst_wind_gusts_max |-> FcstValue(forecast_record, "wind_gusts_10m_max", 0),
     fcst_pressure_msl_min |-> FcstValue(forecast_record, "pressure_msl_min", 1010),
     fcst_temperature_max |-> FcstValue(forecast_record, "temperature_2m_max", 30),
     fcst_relative_humidity_mean |->
         FcstValue(forecast_record, "relative_humidity_2m_mean", 70),
     fcst_cloud_cover_max |-> FcstValue(forecast_record, "cloud_cover_max", 50),
     fcst_dew_point_mean |-> FcstValue(forecast_record, "dew_point_2m_mean", 24),
     fcst_cape_max |-> FcstValue(forecast_record, "cape_max", 0)]

\* Lines 48-61 of src/backfill/generate_predictions.py.
FEATURE_ORDER ==
    <<"year", "month", "day", "day_of_week", "is_rainy_season",
      "month_from_sy_start", "is_holiday", "is_school_day", "lgu_id",
      "mean_flood_risk_score", "hist_precipitation_sum_t1",
      "hist_wind_speed_max_t1", "hist_wind_gusts_max_t1",
      "hist_pressure_msl_min_t1", "hist_temperature_max_t1",
      "hist_relative_humidity_mean_t1", "hist_cloud_cover_max_t1",
      "hist_dew_point_mean_t1", "hist_apparent_temperature_max_t1",
      "hist_weather_code_t1", "hist_precip_sum_7d", "hist_precip_sum_3d",
      "hist_wind_max_7d", "fcst_precipitation_sum", "fcst_precipitation_hours",
      "fcst_wind_speed_max", "fcst_wind_gusts_max", "fcst_pressure_msl_min",
      "fcst_temperature_max", "fcst_relative_humidity_mean",
      "fcst_cloud_cover_max", "fcst_dew_point_mean", "fcst_cape_max">>

\* sorted(forecast_by_lgu_date.keys()): by unit name, then by date string.
\* 'Antipolo', a unit outside the mapping, sorts before 'Caloocan'.
NameRank(lgu) == IF lgu = "Antipolo" THEN 0 ELSE IndexOf(METRO_MANILA_LGUS, lgu)

\* Zero-padded ISO date strings compare as year, month, day.
DateStrBefore(d1, d2) ==
    \/ d1[1] < d2[1]
    \/ d1[1] = d2[1] /\ d1[2] < d2[2]
    \/ d1[1] = d2[1] /\ d1[2] = d2[2] /\ d1[3] <= d2[3]

KeyBefore(k1, k2) ==
    \/ NameRank(k1[1]) < NameRank(k2[1])
    \/ k1[1] = k2[1] /\ DateStrBefore(k1[2], k2[2])

RECURSIVE SortedKeys(_)
SortedKeys(keys) ==
    IF keys = {} THEN <<>>
    ELSE LET first == CHOOSE k \in keys : \A o \in keys : KeyBefore(k, o)
         IN  <<first>> \o SortedKeys(keys \ {first})

\* Mutant: the raw level is used whether or not Metro Manila is affected.
EffectiveTcws_raw(raw_tcws, metro_manila_affected) == raw_tcws

\* Line 265: raw_tcws if metro_manila_affected else 0
EffectiveTcws(raw_tcws, metro_manila_affected) ==
    IF metro_manila_affected THEN raw_tcws ELSE 0

\* The body of the loop of lines 230-283 for one key.
FeatureVector(key, forecast, pagasa) ==
    LET lgu == key[1]
        date_str == key[2]
        forecast_record == forecast[key]
        pagasa_record == Get(pagasa, date_str, EmptyDict)
        features ==
            Update(Update(Update(Update(
                calculate_temporal_features(date_str),
                [lgu_id |-> Some(LGU_ID_MAP[lgu])]),
                [mean_flood_risk_score |-> Some(5)]),
                calculate_historical_features(lgu, date_str, forecast)),
                calculate_forecast_features(forecast_record))
        metro_manila_affected == Get(pagasa_record, "metro_manila_affected", FALSE)
        raw_tcws == Get(pagasa_record, "tcws_level", 0)
        effective_tcws == EffectiveTcws(raw_tcws, metro_manila_affected)
    IN  [date |-> date_str,
         lgu |-> lgu,
         features |-> features,
         pagasa_context |->
             [has_active_typhoon |-> Get(pagasa_record, "has_active_typhoon", FALSE),
              typhoon_name |-> Get(pagasa_record, "typhoon_name", "None"),
              tcws_level |-> effective_tcws,
              raw_tcws_level |-> raw_tcws,
              rainfall_warning |-> Get(pagasa_record, "rainfall_warning", "NONE"),
              metro_manila_affected |-> metro_manila_affected]]

\* The sample print of lines 347-368 reads these features of the first
\* vector in this order, the last five with ":.2f".
SampleFeatures ==
    <<"year", "month", "day", "day_of_week", "is_rainy_season",
      "fcst_precipitation_sum", "fcst_wind_speed_max", "fcst_temperature_max",
      "hist_precipitation_sum_t1", "hist_precip_sum_7d">>

\* The exception the sample print ends with, if any: a missing feature is a
\* KeyError, a null one under ":.2f" a TypeError.
RECURSIVE SamplePrint(_, _)
SamplePrint(sample_features, i) ==
    IF i > Len(SampleFeatures) THEN "ok"
    ELSE IF SampleFeatures[i] \notin DOMAIN sample_features THEN "KeyError"
    ELSE IF i > 5 /\ sample_features[SampleFeatures[i]] = None THEN "TypeError"
    ELSE SamplePrint(sample_features, i + 1)

\* Lines 289-377: the validation, the write of the feature file and the
\* sample print.  `exit` is "ok" for a run that returns, else the exception
\* that ends it.
ValidateAndSave(feature_vectors) ==
    LET sample_features == feature_vectors[1].features
        feature_count == Cardinality(DOMAIN sample_features)
        warning == feature_vectors # <<>> /\ feature_count # 33
        exit == IF feature_vectors = <<>> THEN "ok" ELSE SamplePrint(sample_features, 1)
    IN  [exit |-> exit,
         warning |-> warning,
         written |-> TRUE,
         metadata_feature_count |-> 33,
         feature_vectors |-> feature_vectors]

\* engineer_features (lines 209-377).
engineer_features(forecast, pagasa) ==
    LET all_keys == SortedKeys(DOMAIN forecast)
    IN  IF \E i \in DOMAIN all_keys : all_keys[i][1] \notin DOMAIN LGU_ID_MAP
        THEN [exit |-> "KeyError", warning |-> FALSE, written |-> FALSE,
              metadata_feature_count |-> 33, feature_vectors |-> <<>>]
        ELSE ValidateAndSave(
                 [i \in DOMAIN all_keys |-> FeatureVector(all_keys[i], forecast, pagasa)])

\* The model's forecast file: two units over the days up to FeatLastDate.
FeatLastDate == <<2025, 10, 3>>
FeatDates == {MinusDays(FeatLastDate, i) : i \in 0..DateSpan}
FeatLgus == {"Manila", "Pasig"}

WeatherVars ==
    {"precipitation_sum", "precipitation_hours", "wind_speed_10m_max",
     "wind_gusts_10m_max", "pressure_msl_min", "temperature_2m_max",
     "relative_humidity_2m_mean", "cloud_cover_max", "dew_point_2m_mean",
     "apparent_temperature_max", "weather_code", "cape_max"}

\* The weather of a record: a rainy day, a typhoon day, a day of genuine
\* zero readings, a day the collector wrote as nulls (NaN), and a record
\* with no weather variable at all.
RainyDay ==
    [precipitation_sum |-> Some(5), precipitation_hours |-> Some(3),
     wind_speed_10m_max |-> Some(20), wind_gusts_10m_max |-> Some(35),
     pressure_msl_min |-> Some(1005), temperature_2m_max |-> Some(31),
     relative_humidity_2m_mean |-> Some(80), cloud_cover_max |-> Some(90),
     dew_point_2m_mean |-> Some(25), apparent_temperature_max |-> Some(36),
     weather_code |-> Some(61), cape_max |-> Some(800)]

TyphoonDay ==
    [precipitation_sum |-> Some(150), precipitation_hours |-> Some(20),
     wind_speed_10m_max |-> Some(100), wind_gusts_10m_max |-> Some(140),
     pressure_msl_min |-> Some(990), temperature_2m_max |-> Some(27),
     relative_humidity_2m_mean |-> Some(95), cloud_cover_max |-> Some(100),
     dew_point_2m_mean |-> Some(23), apparent_temperature_max |-> Some(29),
     weather_code |-> Some(95), cape_max |-> Some(2000)]

ZeroDay == [v \in WeatherVars |-> Some(0)]
NullDay == [v \in WeatherVars |-> None]
BareDay == EmptyDict

\* Every weather is tried for the first unit; the second unit's records only
\* have to differ from the first unit's.
Weathers(lgu) ==
    IF lgu = "Manila" THEN {RainyDay, TyphoonDay, ZeroDay, NullDay, BareDay}
    ELSE {TyphoonDay}

\* Lines 66-68 (and 121-136 of the collector): the record of a key.
ForecastRecord(lgu, date, weather) ==
    Update([lgu |-> lgu, date |-> date, data_type |-> "historical_forecast"], weather)

PagasaRecords ==
    {[has_active_typhoon |-> TRUE, typhoon_name |-> "Opong", tcws_level |-> 3,
      metro_manila_affected |-> TRUE, rainfall_warning |-> "ORANGE"],
     [has_active_typhoon |-> TRUE, typhoon_name |-> "Paolo", tcws_level |-> 4,
      metro_manila_affected |-> FALSE, rainfall_warning |-> "NONE"]}

PagasaFiles == {[d \in FeatDates |-> r] : r \in PagasaRecords}

\* The wind-signal levels of a status record (0 is no signal).
TCWS_LEVELS == 0..5

\* Status records for the wind-signal gate: every level, with the
\* affected-area flag true, false or absent, and a record without level.
PagasaGateRecords ==
    LET named == [has_active_typhoon |-> TRUE, typhoon_name |-> "Opong",
                  rainfall_warning |-> "NONE"]
    IN  {Update(named, [tcws_level |-> l, metro_manila_affected |-> a]) :
             l \in TCWS_LEVELS, a \in BOOLEAN}
        \cup {Update(named, [tcws_level |-> l]) : l \in TCWS_LEVELS}
        \cup {named, Update(named, [metro_manila_affected |-> TRUE])}

PagasaGateFiles == {[d \in FeatDates |-> r] : r \in PagasaGateRecords}

\* Vectors as a drifted builder would hand them to the validation: one
\* feature short, or one too many.
DriftedVectors ==
    LET good == FeatureVector(<<"Manila", FeatLastDate>>,
                    [k \in {<<"Manila", FeatLastDate>>} |->
                        ForecastRecord("Manila", FeatLastDate, RainyDay)],
                    EmptyDict)
    IN  {good,
         [good EXCEPT !.features =
             [k \in DOMAIN good.features \ {"fcst_cape_max"} |-> good.features[k]]],
         [good EXCEPT !.features = Update(good.features, [fcst_updraft_max |-> Some(1)])]}

IdleEf ==
    /\ forecast_by_lgu_date = EmptyDict
    /\ pagasa_by_date = EmptyDict
    /\ ef_run = NotRun

\* The PAGASA status file is written (before any forecast record).
WritePagasaFile ==
    /\ script = "none"
    /\ \E f \in PagasaFiles : pagasa_by_date' = f
    /\ script' = "engineer_features"
    /\ UNCHANGED <<forecast_by_lgu_date, ef_run, otherThanEf>>

\* The collector adds one record to the forecast file.
WriteForecastRecord ==
    /\ script \in {"none", "engineer_features"}
    /\ ef_run = NotRun
    /\ Cardinality(DOMAIN forecast_by_lgu_date) < MaxArchive
    /\ \E lgu \in FeatLgus, date \in FeatDates :
         /\ <<lgu, date>> \notin DOMAIN forecast_by_lgu_date
         /\ \E weather \in Weathers(lgu) :
              forecast_by_lgu_date' =
                  Update(forecast_by_lgu_date,
                         [k \in {<<lgu, date>>} |-> ForecastRecord(lgu, date, weather)])
    /\ script' = "engineer_features"
    /\ UNCHANGED <<pagasa_by_date, ef_run, otherThanEf>>

\* One run of engineer_features.
EngineerFeatures ==
    /\ script \in {"none", "engineer_features"}
    /\ ef_run = NotRun
    /\ ef_run' = engineer_features(forecast_by_lgu_date, pagasa_by_date)
    /\ script' = "engineer_features"
    /\ UNCHANGED <<forecast_by_lgu_date, pagasa_by_date, otherThanEf>>

\* The validation and the write alone (lines 289-377), on the vectors of a
\* builder that has drifted from the 33 features.
ValidateDrifted ==
    /\ script = "none"
    /\ \E n \in 1..MaxVectors :
         \E fvs \in [1..n -> DriftedVectors] : ef_run' = ValidateAndSave(fvs)
    /\ script' = "engineer_features_validation"
    /\ UNCHANGED <<forecast_by_lgu_date, pagasa_by_date, otherThanEf>>

\* The script ends.
EfExit ==
    /\ script \in {"engineer_features", "engineer_features_validation"}
    /\ ef_run # NotRun
    /\ script' = "none"
    /\ forecast_by_lgu_date' = EmptyDict
    /\ pagasa_by_date' = EmptyDict
    /\ ef_run' = NotRun
    /\ UNCHANGED otherThanEf

\* The PAGASA status file, over every level and flag.
WritePagasaGateFile ==
    /\ script \in {"none", "engineer_features"}
    /\ ef_run = NotRun
    /\ pagasa_by_date = EmptyDict
    /\ \E f \in PagasaGateFiles : pagasa_by_date' = f
    /\ script' = "engineer_features"
    /\ UNCHANGED <<forecast_by_lgu_date, ef_run, otherThanEf>>

\* A forecast file of a single record.
WriteSingleForecastRecord ==
    /\ forecast_by_lgu_date = EmptyDict
    /\ WriteForecastRecord

NextGate ==
    WritePagasaGateFile \/ WriteSingleForecastRecord \/ EngineerFeatures \/ EfExit

NextFeatures == WritePagasaFile \/ WriteForecastRecord \/ EngineerFeatures \/ EfExit

NextValidate == ValidateDrifted \/ EfExit

(***************************************************************************)
(* Claims on the feature engineering.                                      *)
(***************************************************************************)
EfDone == ef_run # NotRun
EfVectors == {ef_run.feature_vectors[i] : i \in DOMAIN ef_run.feature_vectors}
OrderNames(lo, hi) == {FEATURE_ORDER[j] : j \in lo..hi}

\* C6: every feature vector of a run has exactly the 33 names of
\* FEATURE_ORDER, no more and no fewer: 8 temporal features, lgu_id,
\* mean_flood_risk_score, 13 hist_ features and 10 fcst_ features.
C6_Exactly33Features ==
    EfDone =>
        /\ Len(FEATURE_ORDER) = 33
        /\ Cardinality(OrderNames(1, 33)) = 33
        /\ \A v \in EfVectors :
             /\ DOMAIN v.features = OrderNames(1, 33)
             /\ DOMAIN calculate_temporal_features(v.date) = OrderNames(1, 8)
             /\ DOMAIN calculate_historical_features(v.lgu, v.date, forecast_by_lgu_date)
                    = OrderNames(11, 23)
             /\ DOMAIN calculate_forecast_features(forecast_by_lgu_date[<<v.lgu, v.date>>])
                    = OrderNames(24, 33)

\* A run over an archive of both units, one record without weather variables.
C6_Witness ==
    /\ EfDone
    /\ ef_run.exit = "ok"
    /\ {v.lgu : v \in EfVectors} = FeatLgus
    /\ \E k \in DOMAIN forecast_by_lgu_date :
         DOMAIN forecast_by_lgu_date[k] \cap WeatherVars = {}

C8_NoNullFeature ==
    (EfDone /\ ef_run.written) =>
        \A v \in EfVectors : \A k \in DOMAIN v.features : v.features[k] # None

C9_HasEntry(lgu, date, back) ==
    \E k \in DOMAIN forecast_by_lgu_date :
        k[1] = lgu /\ ToOrdinal(k[2]) + back = ToOrdinal(date)

\* C9: a vector whose unit has no archive entry for the day before its date
\* holds the ten fixed defaults in its hist_*_t1 features: 0, 0, 0, 1010, 30,
\* 70, 50, 24, 30, 0.
C9_FirstDayDefaults ==
    EfDone =>
        \A v \in EfVectors :
            ~C9_HasEntry(v.lgu, v.date, 1) =>
                /\ v.features["hist_precipitation_sum_t1"] = Some(0)
                /\ v.features["hist_wind_speed_max_t1"] = Some(0)
                /\ v.features["hist_wind_gusts_max_t1"] = Some(0)
                /\ v.features["hist_pressure_msl_min_t1"] = Some(1010)
                /\ v.features["hist_temperature_max_t1"] = Some(30)
                /\ v.features["hist_relative_humidity_mean_t1"] = Some(70)
                /\ v.features["hist_cloud_cover_max_t1"] = Some(50)
                /\ v.features["hist_dew_point_mean_t1"] = Some(24)
                /\ v.features["hist_apparent_temperature_max_t1"] = Some(30)
                /\ v.features["hist_weather_code_t1"] = Some(0)

\* A vector with no entry the day before although its unit has one two days
\* before, next to a vector that does have its day before.
C9_Witness ==
    /\ EfDone
    /\ \E v \in EfVectors : ~C9_HasEntry(v.lgu, v.date, 1) /\ C9_HasEntry(v.lgu, v.date, 2)
    /\ \E v \in EfVectors : C9_HasEntry(v.lgu, v.date, 1)

\* The archived days of a unit from 1 to n days before a date.
C10_Window(lgu, date, n) ==
    {k \in DOMAIN forecast_by_lgu_date :
        k[1] = lgu /\ ToOrdinal(date) - ToOrdinal(k[2]) \in 1..n}

\* The reading of an archived day, 0 when it is null or missing.
C10_Reading(k, var) ==
    LET record == forecast_by_lgu_date[k]
    IN  IF var \in DOMAIN record /\ record[var] # None THEN record[var][1] ELSE 0

RECURSIVE C10_Sum(_, _)
C10_Sum(keys, var) ==
    IF keys = {} THEN 0
    ELSE LET k == CHOOSE x \in keys : TRUE
         IN  C10_Reading(k, var) + C10_Sum(keys \ {k}, var)

C10_Max(keys, var) ==
    IF keys = {} THEN 0
    ELSE CHOOSE m \in {C10_Reading(k, var) : k \in keys} :
             \A k \in keys : C10_Reading(k, var) <= m

\* C10: hist_precip_sum_3d and hist_precip_sum_7d are the sums of
\* precipitation_sum, and hist_wind_max_7d the maximum of wind_speed_10m_max,
\* over the archived days of the same unit from date-1 to date-3 and from
\* date-1 to date-7; the target date is not in the window, and an aggregate
\* without archived day is 0.0.
C10_RollingAggregates ==
    EfDone =>
        \A v \in EfVectors :
            /\ v.features["hist_precip_sum_3d"] =
                   Some(C10_Sum(C10_Window(v.lgu, v.date, 3), "precipitation_sum"))
            /\ v.features["hist_precip_sum_7d"] =
                   Some(C10_Sum(C10_Window(v.lgu, v.date, 7), "precipitation_sum"))
            /\ v.features["hist_wind_max_7d"] =
                   Some(C10_Max(C10_Window(v.lgu, v.date, 7), "wind_speed_10m_max"))

\* A typhoon day whose window holds a rainy day within three days and a
\* typhoon day further back.
C10_Witness ==
    /\ EfDone
    /\ \E v \in EfVectors :
         /\ Get(forecast_by_lgu_date[<<v.lgu, v.date>>], "precipitation_sum", None) = Some(150)
         /\ v.features["hist_precip_sum_3d"] = Some(5)
         /\ v.features["hist_precip_sum_7d"] = Some(155)
         /\ v.features["hist_wind_max_7d"] = Some(100)

\* The status record of a vector's date, as the run read it.
C11_Status(v) == Get(pagasa_by_date, v.date, EmptyDict)

\* C11: for every raw wind-signal level in 0..5 and every value of the
\* affected-area flag, pagasa_context.tcws_level is the raw level when the
\* flag is true and 0 when it is false or absent, so it never exceeds the raw
\* level; raw_tcws_level keeps the raw level (0 when the record has none).
C11_EffectiveLevel ==
    EfDone =>
        \A v \in EfVectors :
            LET status == C11_Status(v)
                raw == IF "tcws_level" \in DOMAIN status THEN status["tcws_level"] ELSE 0
                flag == "metro_manila_affected" \in DOMAIN status
                            /\ status["metro_manila_affected"]
            IN  /\ v.pagasa_context.raw_tcws_level = raw
                /\ flag => v.pagasa_context.tcws_level = raw
                /\ ~flag => v.pagasa_context.tcws_level = 0
                /\ v.pagasa_context.tcws_level <= v.pagasa_context.raw_tcws_level

\* Raw level 4 with the flag false: effective level 0, raw level kept.
C11_Witness ==
    /\ EfDone
    /\ \E v \in EfVectors :
         /\ "metro_manila_affected" \in DOMAIN C11_Status(v)
         /\ ~C11_Status(v)["metro_manila_affected"]
         /\ v.pagasa_context.raw_tcws_level = 4
         /\ v.pagasa_context.tcws_level = 0

\* The forecast field each fcst_ feature is read from (lines 194-205).
C19_FieldOf ==
    [fcst_precipitation_sum |-> "precipitation_sum",
     fcst_precipitation_hours |-> "precipitation_hours",
     fcst_wind_speed_max |-> "wind_speed_10m_max",
     fcst_wind_gusts_max |-> "wind_gusts_10m_max",
     fcst_pressure_msl_min |-> "pressure_msl_min",
     fcst_temperature_max |-> "temperature_2m_max",
     fcst_relative_humidity_mean |-> "relative_humidity_2m_mean",
     fcst_cloud_cover_max |-> "cloud_cover_max",
     fcst_dew_point_mean |-> "dew_point_2m_mean",
     fcst_cape_max |-> "cape_max"]

\* C19: each fcst_ feature of a vector is the value of its field in the
\* same-day forecast record whenever the field is there with a number, a
\* genuine 0 included.  The code replaces a 0 by the default.
C19_LiteralForecastValue ==
    EfDone =>
        \A v \in EfVectors :
            LET record == forecast_by_lgu_date[<<v.lgu, v.date>>]
            IN  \A f \in DOMAIN C19_FieldOf :
                    (C19_FieldOf[f] \in DOMAIN record /\ record[C19_FieldOf[f]] # None)
                        => v.features[f] = record[C19_FieldOf[f]]

(***************************************************************************)
(* backfill/generate_prediction_logs.py: normalize_lgu_name.  A str is the *)
(* sequence of its characters, each a one-character string, so that the    *)
(* str methods act character by character as Python's do.                  *)
(***************************************************************************)

\* The cased characters of the alphabet: <<lowercase, uppercase>>.
CasePairs ==
    <<<<"a", "A">>, <<"b", "B">>, <<"c", "C">>, <<"d", "D">>, <<"e", "E">>, <<"f", "F">>, <<"g", "G">>,
      <<"h", "H">>, <<"i", "I">>, <<"j", "J">>, <<"k", "K">>, <<"l", "L">>, <<"m", "M">>, <<"n", "N">>,
      <<"o", "O">>, <<"p", "P">>, <<"q", "Q">>, <<"r", "R">>, <<"s", "S">>, <<"t", "T">>, <<"u", "U">>,
      <<"v", "V">>, <<"w", "W">>, <<"x", "X">>, <<"y", "Y">>, <<"z", "Z">>, <<"ñ", "Ñ">>, <<"ã", "Ã">>>>

IsLower(c) == \E i \in DOMAIN CasePairs : CasePairs[i][1] = c
IsUpper(c) == \E i \in DOMAIN CasePairs : CasePairs[i][2] = c
Cased(c) == IsLower(c) \/ IsUpper(c)

\* str.lower() and str.upper() of one character; others are left as they are.
Lower(c) ==
    IF IsUpper(c)
    THEN CasePairs[CHOOSE i \in DOMAIN CasePairs : CasePairs[i][2] = c][1]
    ELSE c

Upper(c) ==
    IF IsLower(c)
    THEN CasePairs[CHOOSE i \in DOMAIN CasePairs : CasePairs[i][1] = c][2]
    ELSE c

StrLower(s) == [i \in DOMAIN s |-> Lower(s[i])]

StrUpper(s) == [i \in DOMAIN s |-> Upper(s[i])]

\* str.swapcase()
StrSwapcase(s) == [i \in DOMAIN s |-> IF IsLower(s[i]) THEN Upper(s[i]) ELSE Lower(s[i])]

\* str.title(): a cased character that follows a cased character is lowered,
\* any other cased character is capitalised.
StrTitle(s) ==
    [i \in DOMAIN s |-> IF i > 1 /\ Cased(s[i - 1]) THEN Lower(s[i]) ELSE Upper(s[i])]

Whitespace == {" "}

RECURSIVE LStrip(_)
LStrip(s) == IF s # <<>> /\ Head(s) \in Whitespace THEN LStrip(Tail(s)) ELSE s

RECURSIVE RStrip(_)
RStrip(s) ==
    IF s # <<>> /\ s[Len(s)] \in Whitespace THEN RStrip(SubSeq(s, 1, Len(s) - 1)) ELSE s

\* str.strip()
Strip(s) == RStrip(LStrip(s))

\* The canonical names, as the source spells them.
Spelling ==
    ("Caloocan" :> <<"C", "a", "l", "o", "o", "c", "a", "n">>)
    @@ ("Las Piñas" :> <<"L", "a", "s", " ", "P", "i", "ñ", "a", "s">>)
    @@ ("Makati" :> <<"M", "a", "k", "a", "t", "i">>)
    @@ ("Malabon" :> <<"M", "a", "l", "a", "b", "o", "n">>)
    @@ ("Mandaluyong" :> <<"M", "a", "n", "d", "a", "l", "u", "y", "o", "n", "g">>)
    @@ ("Manila" :> <<"M", "a", "n", "i", "l", "a">>)
    @@ ("Marikina" :> <<"M", "a", "r", "i", "k", "i", "n", "a">>)
    @@ ("Muntinlupa" :> <<"M", "u", "n", "t", "i", "n", "l", "u", "p", "a">>)
    @@ ("Navotas" :> <<"N", "a", "v", "o", "t", "a", "s">>)
    @@ ("Parañaque" :> <<"P", "a", "r", "a", "ñ", "a", "q", "u", "e">>)
    @@ ("Pasay" :> <<"P", "a", "s", "a", "y">>)
    @@ ("Pasig" :> <<"P", "a", "s", "i", "g">>)
    @@ ("Pateros" :> <<"P", "a", "t", "e", "r", "o", "s">>)
    @@ ("Quezon City" :> <<"Q", "u", "e", "z", "o", "n", " ", "C", "i", "t", "y">>)
    @@ ("San Juan" :> <<"S", "a", "n", " ", "J", "u", "a", "n">>)
    @@ ("Taguig" :> <<"T", "a", "g", "u", "i", "g">>)
    @@ ("Valenzuela" :> <<"V", "a", "l", "e", "n", "z", "u", "e", "l", "a">>)

\* The mapping of the function, by lowercased name.
NameMapping_chained ==
    (<<"l", "a", "s", " ", "p", "i", "n", "a", "s">> :> <<"L", "a", "s", " ", "P", "i", "ñ", "a", "s">>)
    @@ (<<"l", "a", "s", " ", "p", "i", "ñ", "a", "s">> :> <<"L", "a", "s", " ", "P", "i", "ñ", "a", "s">>)
    @@ (<<"l", "a", "s", " ", "p", "i", "ã", "±", "a", "s">> :> <<"L", "a", "s", " ", "P", "i", "n", "a", "s">>)
    @@ (<<"p", "a", "r", "a", "n", "a", "q", "u", "e">> :> <<"P", "a", "r", "a", "ñ", "a", "q", "u", "e">>)
    @@ (<<"p", "a", "r", "a", "ñ", "a", "q", "u", "e">> :> <<"P", "a", "r", "a", "ñ", "a", "q", "u", "e">>)
    @@ (<<"p", "a", "r", "a", "ã", "±", "a", "q", "u", "e">> :> <<"P", "a", "r", "a", "n", "a", "q", "u", "e">>)
    @@ (<<"q", "u", "e", "z", "o", "n", " ", "c", "i", "t", "y">> :> <<"Q", "u", "e", "z", "o", "n", " ", "C", "i", "t", "y">>)
    @@ (<<"s", "a", "n", " ", "j", "u", "a", "n">> :> <<"S", "a", "n", " ", "J", "u", "a", "n">>)

NameMapping ==
    (<<"l", "a", "s", " ", "p", "i", "n", "a", "s">> :> <<"L", "a", "s", " ", "P", "i", "ñ", "a", "s">>)
    @@ (<<"l", "a", "s", " ", "p", "i", "ñ", "a", "s">> :> <<"L", "a", "s", " ", "P", "i", "ñ", "a", "s">>)
    @@ (<<"l", "a", "s", " ", "p", "i", "ã", "±", "a", "s">> :> <<"L", "a", "s", " ", "P", "i", "ñ", "a", "s">>)
    @@ (<<"p", "a", "r", "a", "n", "a", "q", "u", "e">> :> <<"P", "a", "r", "a", "ñ", "a", "q", "u", "e">>)
    @@ (<<"p", "a", "r", "a", "ñ", "a", "q", "u", "e">> :> <<"P", "a", "r", "a", "ñ", "a", "q", "u", "e">>)
    @@ (<<"p", "a", "r", "a", "ã", "±", "a", "q", "u", "e">> :> <<"P", "a", "r", "a", "ñ", "a", "q", "u", "e">>)
    @@ (<<"q", "u", "e", "z", "o", "n", " ", "c", "i", "t", "y">> :> <<"Q", "u", "e", "z", "o", "n", " ", "C", "i", "t", "y">>)
    @@ (<<"s", "a", "n", " ", "j", "u", "a", "n">> :> <<"S", "a", "n", " ", "J", "u", "a", "n">>)

normalize_lgu_name_casesensitive(lgu) ==
    LET normalized == Strip(lgu)
    IN  IF normalized \in DOMAIN NameMapping
        THEN NameMapping[normalized]
        ELSE StrTitle(normalized)

normalize_lgu_name(lgu) ==
    LET normalized == Strip(lgu)
        lower == StrLower(normalized)
    IN  IF lower \in DOMAIN NameMapping
        THEN NameMapping[lower]
        ELSE StrTitle(normalized)

\* The names the function is called with: the canonical names, the unaccented
\* and the mis-decoded spellings, and names of no unit of the region, each as
\* spelled, in upper, lower and swapped case, bare or padded with spaces.
UnaccentedSpelling ==
    ("Las Piñas" :> <<"L", "a", "s", " ", "P", "i", "n", "a", "s">>)
    @@ ("Parañaque" :> <<"P", "a", "r", "a", "n", "a", "q", "u", "e">>)

MojibakeSpelling ==
    ("Las Piñas" :> <<"L", "a", "s", " ", "P", "i", "Ã", "±", "a", "s">>)
    @@ ("Parañaque" :> <<"P", "a", "r", "a", "Ã", "±", "a", "q", "u", "e">>)

UnknownNames ==
    {<<"C", "e", "b", "u", " ", "C", "i", "t", "y">>,
     <<"Q", "u", "e", "z", "o", "n">>,
     <<"s", "t", "a", ".", " ", "r", "o", "s", "a">>}

CanonicalSpellings == {Spelling[n] : n \in DOMAIN Spelling}

BaseNames ==
    CanonicalSpellings
        \cup {UnaccentedSpelling[n] : n \in DOMAIN UnaccentedSpelling}
        \cup {MojibakeSpelling[n] : n \in DOMAIN MojibakeSpelling}
        \cup UnknownNames

Casings(s) == {s, StrUpper(s), StrLower(s), StrSwapcase(s)}

Paddings(s) == {s, <<" ">> \o s, s \o <<" ">>, <<" ", " ">> \o s \o <<" ">>}

NameInputs == UNION {UNION {Paddings(c) : c \in Casings(b)} : b \in BaseNames}

IdleName == name_log = <<>>

NameCall(lgu) == [lgu |-> lgu, normalized |-> normalize_lgu_name(lgu)]

\* normalize_lgu_name(lgu) for a name read from a file.
NormalizeName ==
    /\ script \in {"none", "normalize_lgu_name"}
    /\ name_log = <<>>
    /\ \E lgu \in NameInputs : name_log' = <<NameCall(lgu)>>
    /\ script' = "normalize_lgu_name"
    /\ UNCHANGED otherThanName

\* normalize_lgu_name applied to the name the last call returned.
NormalizeAgain ==
    /\ script = "normalize_lgu_name"
    /\ name_log # <<>>
    /\ Len(name_log) < MaxCalls
    /\ name_log' = Append(name_log, NameCall(name_log[Len(name_log)].normalized))
    /\ UNCHANGED <<script, otherThanName>>

NextNames == NormalizeName \/ NormalizeAgain

(***************************************************************************)
(* Claims about normalize_lgu_name.                                        *)
(***************************************************************************)

\* C13: normalising a name that normalize_lgu_name returned gives the same
\* name again, whatever the first input was: a canonical name, an unaccented
\* or mis-decoded spelling, any casing, surrounding whitespace, an unknown
\* name.
C13_Idempotent ==
    \A i \in 2..Len(name_log) :
        /\ name_log[i].lgu = name_log[i - 1].normalized
        /\ name_log[i].normalized = name_log[i - 1].normalized

\* The upper-cased, padded, mis-decoded spelling of Las Piñas, normalised twice.
C13_Witness ==
    /\ Len(name_log) = 2
    /\ name_log[1].lgu = <<" ">> \o StrUpper(MojibakeSpelling["Las Piñas"])
    /\ name_log[2].normalized = Spelling["Las Piñas"]

\* The spellings the function documents for a canonical name, lowercased.
C14_Variants(n) ==
    {StrLower(Spelling[n])}
        \cup (IF n \in DOMAIN UnaccentedSpelling
              THEN {StrLower(UnaccentedSpelling[n]), StrLower(MojibakeSpelling[n])}
              ELSE {})

C14_Known(lgu) == \E n \in DOMAIN Spelling : StrLower(Strip(lgu)) \in C14_Variants(n)

\* out is lgu without its padding, every word capitalised and otherwise lowercase.
C14_TitleCased(lgu, out) ==
    /\ StrLower(out) = StrLower(Strip(lgu))
    /\ \A i \in DOMAIN out :
           Cased(out[i]) => (IsUpper(out[i]) <=> (i = 1 \/ ~Cased(out[i - 1])))

\* C14: normalize_lgu_name returns each of the 17 canonical names unchanged,
\* maps the mis-decoded spellings 'Las PiÃ±as' / 'ParaÃ±aque' and the unaccented
\* 'las pinas' / 'paranaque' to 'Las Piñas' / 'Parañaque', returns an unknown
\* name title-cased, and returns a canonical name only for a spelling of that
\* very unit.
C14_CanonicalNames ==
    \A i \in DOMAIN name_log :
        LET lgu == name_log[i].lgu
            out == name_log[i].normalized
        IN  /\ lgu \in CanonicalSpellings => out = lgu
            /\ \A n \in DOMAIN MojibakeSpelling :
                   lgu \in {MojibakeSpelling[n], StrLower(UnaccentedSpelling[n])}
                       => out = Spelling[n]
            /\ ~C14_Known(lgu) => C14_TitleCased(lgu, out)
            /\ \A n \in DOMAIN Spelling :
                   out = Spelling[n] => StrLower(Strip(lgu)) \in C14_Variants(n)

\* The mis-decoded 'ParaÃ±aque' as read from a file, mapped to 'Parañaque'.
C14_Witness ==
    /\ Len(name_log) = 1
    /\ name_log[1].lgu = MojibakeSpelling["Parañaque"]
    /\ name_log[1].normalized = Spelling["Parañaque"]

\* An unknown name comes back title-cased: ' STA. ROSA' as 'Sta. Rosa'.
C14_UnknownWitness ==
    /\ Len(name_log) = 1
    /\ ~C14_Known(name_log[1].lgu)
    /\ name_log[1].lgu # name_log[1].normalized

(***************************************************************************)
(* The temporal features, as computed at three places:                     *)
(* backfill/engineer_features.py (calculate_temporal_features, above),     *)
(* scripts/collect_and_log.py (predict_with_model) and                     *)
(* backfill/test_performance.py (test_feature_engineering).                *)
(***************************************************************************)

\* predict_with_model: the temporal part of the feature vector, for date.today().
PredictTemporal(today) ==
    [year |-> today[1],
     month |-> today[2],
     day |-> today[3],
     day_of_week |-> Weekday(today),
     is_rainy_season |-> IF today[2] \in {6, 7, 8, 9, 10, 11} THEN 1 ELSE 0,
     month_from_sy_start |-> (today[2] - 6) % 12,
     is_holiday |-> 0,
     is_school_day |-> IF Weekday(today) < 5 THEN 1 ELSE 0]

TestPerformanceTemporal_nowrap(month, day_of_week) ==
    [is_rainy_season |-> IF month \in {6, 7, 8, 9, 10, 11} THEN 1 ELSE 0,
     month_from_sy_start |-> month - 6,
     is_holiday |-> 0,
     is_school_day |-> IF day_of_week < 5 THEN 1 ELSE 0]

\* test_performance: the computed columns of the sample frame, for one row.
TestPerformanceTemporal(month, day_of_week) ==
    [is_rainy_season |-> IF month \in {6, 7, 8, 9, 10, 11} THEN 1 ELSE 0,
     month_from_sy_start |-> IF month >= 6 THEN month - 6 ELSE month + 6,
     is_holiday |-> 0,
     is_school_day |-> IF day_of_week < 5 THEN 1 ELSE 0]

\* The dates the features are computed for: every day of a leap year and of
\* the year of the archive.
TemporalYears == {2024, 2025}

TemporalDates ==
    UNION {UNION {{<<y, mo, d>> : d \in 1..DaysInMonth(y, mo)} : mo \in 1..12} : y \in TemporalYears}

IdleTemporal == temporal_call = NotRun

\* The three computations, for the same date.
TemporalFeatures ==
    /\ script = "none"
    /\ temporal_call = NotRun
    /\ \E d \in TemporalDates :
         temporal_call' = [run |-> TRUE,
                           date |-> d,
                           engineer_features |-> calculate_temporal_features(d),
                           collect_and_log |-> PredictTemporal(d),
                           test_performance |-> TestPerformanceTemporal(d[2], Weekday(d))]
    /\ script' = "temporal_features"
    /\ UNCHANGED otherThanTemporal

NextTemporal == TemporalFeatures

(***************************************************************************)
(* Claims about the temporal features.                                     *)
(***************************************************************************)

\* The three flags of a claim, as C15 states them for a date.
C15_Expected(d) ==
    [is_rainy_season |-> IF 6 <= d[2] /\ d[2] <= 11 THEN 1 ELSE 0,
     month_from_sy_start |-> CHOOSE k \in 0..11 : \E q \in {-1, 0, 1} : d[2] - 6 = 12 * q + k,
     is_school_day |-> IF Weekday(d) < 5 /\ d \notin HOLIDAYS THEN 1 ELSE 0]

C15_Flags == {"is_rainy_season", "month_from_sy_start", "is_school_day"}

\* C15: for every date, is_rainy_season is 1 exactly for the months 6..11,
\* month_from_sy_start is (month - 6) mod 12 and is_school_day is 1 exactly
\* for a weekday < 5 that is no holiday, in calculate_temporal_features, in
\* predict_with_model and in test_performance alike.
C15_TemporalAgree ==
    temporal_call # NotRun =>
        \A f \in C15_Flags :
            /\ temporal_call.engineer_features[f] = Some(C15_Expected(temporal_call.date)[f])
            /\ temporal_call.collect_and_log[f] = C15_Expected(temporal_call.date)[f]
            /\ temporal_call.test_performance[f] = C15_Expected(temporal_call.date)[f]

\* Saturday 2025-02-15: not the rainy season, eighth month of the school
\* year, no school day.
C15_Witness ==
    /\ temporal_call # NotRun
    /\ temporal_call.date = <<2025, 2, 15>>
    /\ temporal_call.test_performance.month_from_sy_start = 8
    /\ temporal_call.collect_and_log.is_school_day = 0
    /\ temporal_call.engineer_features.is_rainy_season = Some(0)

(***************************************************************************)
(* backfill/generate_prediction_logs.py: main, matching the predictions    *)
(* with the actual outcomes.  The actual-suspensions file is kept flat:    *)
(* (date, name as written) |-> details.  Names are character sequences.    *)
(***************************************************************************)
MatchDates == {<<2025, 9, 22>>, <<2025, 9, 23>>}

\* The names as the two files write them.
MatchActualNames == {Spelling["Manila"], StrLower(UnaccentedSpelling["Las Piñas"])}
MatchPredictionNames == {Spelling["Manila"], MojibakeSpelling["Las Piñas"]}

MatchDetails == {[suspended |-> TRUE], [suspended |-> FALSE], EmptyDict}

MatchActualsFiles ==
    UNION {[K -> MatchDetails] : K \in SUBSET (MatchDates \X MatchActualNames)}

MatchPredictions == [prediction_date : MatchDates, lgu : MatchPredictionNames]

\* Lines 54-69: {date: {normalized name: was_suspended}}, kept flat.
build_actual_suspensions_lookup(actual_data) ==
    LET keys == {<<k[1], normalize_lgu_name(k[2])>> : k \in DOMAIN actual_data}
        raw(key) == CHOOSE k \in DOMAIN actual_data :
                        k[1] = key[1] /\ normalize_lgu_name(k[2]) = key[2]
    IN  [key \in keys |-> Get(actual_data[raw(key)], "suspended", FALSE)]

\* Lines 339-351: the loop body, for one prediction.
MatchStep(r, pred_raw, actual_lookup) ==
    LET date == pred_raw.prediction_date
        lgu == normalize_lgu_name(pred_raw.lgu)
        found == <<date, lgu>> \in DOMAIN actual_lookup
        actual_suspended == IF found THEN Some(actual_lookup[<<date, lgu>>]) ELSE None
    IN  [predictions_with_actual |->
             Append(r.predictions_with_actual,
                    Update(pred_raw, [actual_suspended |-> actual_suspended])),
         matched_count |-> IF found THEN r.matched_count + 1 ELSE r.matched_count]

RECURSIVE MatchLoop(_, _, _)
MatchLoop(r, preds, actual_lookup) ==
    IF preds = <<>> THEN r
    ELSE MatchLoop(MatchStep(r, Head(preds), actual_lookup), Tail(preds), actual_lookup)

\* Lines 265-302, for the fields the matching decides.
format_prediction_for_dashboard(pred, actual_suspended) ==
    [prediction_date |-> pred.prediction_date,
     lgu |-> normalize_lgu_name(pred.lgu),
     actual_suspended |-> actual_suspended]

\* Lines 319-403: the two counts printed after the loop and the predictions
\* of the output file.  Without any prediction generate_metadata divides by
\* len(probabilities) = 0 (line 248) and no file is written.
MatchMain(predictions_raw, actual_suspensions) ==
    LET actual_lookup == build_actual_suspensions_lookup(actual_suspensions)
        r == MatchLoop([predictions_with_actual |-> <<>>, matched_count |-> 0],
                       predictions_raw, actual_lookup)
    IN  [run |-> TRUE,
         predictions_with_actual |-> r.predictions_with_actual,
         printed |-> [matched |-> r.matched_count,
                      without_outcome |-> Len(predictions_raw) - r.matched_count],
         exit |-> IF predictions_raw = <<>> THEN "ZeroDivisionError" ELSE "ok",
         predictions |->
             [i \in DOMAIN r.predictions_with_actual |->
                 format_prediction_for_dashboard(
                     r.predictions_with_actual[i],
                     r.predictions_with_actual[i].actual_suspended)]]

IdleMatch == match_actuals = EmptyDict /\ match_predictions = <<>> /\ match_run = NotRun

\* The actual-suspensions file the run will read.
MatchWriteActuals ==
    /\ script \in {"none", "generate_prediction_logs"}
    /\ match_run = NotRun
    /\ match_actuals = EmptyDict
    /\ match_predictions = <<>>
    /\ \E f \in MatchActualsFiles : f # EmptyDict /\ match_actuals' = f
    /\ script' = "generate_prediction_logs"
    /\ UNCHANGED <<match_predictions, match_run, otherThanMatch>>

\* One more prediction of the predictions file.
MatchWritePrediction ==
    /\ script \in {"none", "generate_prediction_logs"}
    /\ match_run = NotRun
    /\ Len(match_predictions) < MaxPreds
    /\ \E pred \in MatchPredictions : match_predictions' = Append(match_predictions, pred)
    /\ script' = "generate_prediction_logs"
    /\ UNCHANGED <<match_actuals, match_run, otherThanMatch>>

\* main, from the loads to the output file.
MatchOutcomes ==
    /\ script \in {"none", "generate_prediction_logs"}
    /\ match_run = NotRun
    /\ match_run' = MatchMain(match_predictions, match_actuals)
    /\ script' = "generate_prediction_logs"
    /\ UNCHANGED <<match_actuals, match_predictions, otherThanMatch>>

\* The script ends; the files stay.
MatchExit ==
    /\ script = "generate_prediction_logs"
    /\ match_run # NotRun
    /\ script' = "none"
    /\ match_run' = NotRun
    /\ UNCHANGED <<match_actuals, match_predictions, otherThanMatch>>

NextMatch == MatchWriteActuals \/ MatchWritePrediction \/ MatchOutcomes \/ MatchExit

(***************************************************************************)
(* Claims about the matching.                                              *)
(***************************************************************************)

\* The recorded outcomes no prediction was made for.
C17_Gaps ==
    DOMAIN build_actual_suspensions_lookup(match_actuals)
        \ {<<match_predictions[i].prediction_date,
             normalize_lgu_name(match_predictions[i].lgu)>> : i \in DOMAIN match_predictions}

\* The (date, unit) pairs that the output of main names: those of its
\* predictions (the printed lines and the metadata hold counts of
\* predictions only).
C17_Named ==
    {<<match_run.predictions[i].prediction_date, match_run.predictions[i].lgu>> :
        i \in DOMAIN match_run.predictions}

\* C17: every recorded outcome whose (date, unit) has no prediction is
\* reported by main, and the printed number of predictions without outcome
\* data is the number of predictions whose actual_suspended is None.  The
\* code reports no such outcome.
C17_CoverageGapReported ==
    (match_run # NotRun /\ match_run.exit = "ok") =>
        /\ C17_Gaps \subseteq C17_Named
        /\ match_run.printed.without_outcome =
               Cardinality({i \in DOMAIN match_run.predictions_with_actual :
                               match_run.predictions_with_actual[i].actual_suspended = None})

(***************************************************************************)
(* Risk tier details and weather context: src/src/weather/risk_tiers.py   *)
(***************************************************************************)
TierBaseActions ==
    [GREEN |-> <<"Continue regular class schedule",
                 "Monitor weather updates",
                 "Maintain standard preparedness protocols">>,
     ORANGE |-> <<"Monitor updates every 2 hours",
                  "Prepare early dismissal plan",
                  "Coordinate with DRRM office",
                  "Review evacuation procedures",
                  "Activate weather monitoring team">>,
     RED |-> <<"Issue suspension announcement",
               "Activate online/modular learning",
               "Monitor for multi-day impact",
               "Coordinate with local government",
               "Ensure student safety protocols active">>]

\* The actions added for a wind signal (lines 131-132 and 157-159).
TyphoonActions ==
    [GREEN |-> <<>>,
     ORANGE |-> <<"Monitor PAGASA typhoon bulletins">>,
     RED |-> <<"Activate disaster response protocols", "Secure school facilities">>]

\* Mutant: the RED tier takes its typhoon actions from level 1 on, as the
\* ORANGE tier does.
get_tier_details_level1(tier, tcws_level) ==
    [tier |-> tier,
     title |-> CASE tier = "GREEN" -> "NORMAL CONDITIONS"
                 [] tier = "ORANGE" -> "WEATHER ALERT"
                 [] OTHER -> "CLASS SUSPENSION",
     recommendation |-> CASE tier = "GREEN" -> "No suspension expected"
                          [] tier = "ORANGE" -> "Prepare for possible suspension"
                          [] OTHER -> "SUSPEND face-to-face classes",
     actions |-> IF tier # "GREEN" /\ tcws_level >= 1
                 THEN TierBaseActions[tier] \o TyphoonActions[tier]
                 ELSE TierBaseActions[tier],
     monitoring_interval |-> CASE tier = "GREEN" -> "Standard monitoring (daily)"
                               [] tier = "ORANGE" -> "Enhanced monitoring (every 2 hours)"
                               [] OTHER -> "Continuous monitoring (hourly)"]

\* Lines 82-169; of the display fields, those that differ between tiers in
\* wording only are represented by title, recommendation and
\* monitoring_interval.
get_tier_details(tier, tcws_level) ==
    IF tier = "GREEN" THEN
        [tier |-> "GREEN",
         title |-> "NORMAL CONDITIONS",
         recommendation |-> "No suspension expected",
         actions |-> TierBaseActions.GREEN,
         monitoring_interval |-> "Standard monitoring (daily)"]
    ELSE IF tier = "ORANGE" THEN
        [tier |-> "ORANGE",
         title |-> "WEATHER ALERT",
         recommendation |-> "Prepare for possible suspension",
         actions |-> IF tcws_level >= 1
                     THEN TierBaseActions.ORANGE \o TyphoonActions.ORANGE
                     ELSE TierBaseActions.ORANGE,
         monitoring_interval |-> "Enhanced monitoring (every 2 hours)"]
    ELSE
        [tier |-> "RED",
         title |-> "CLASS SUSPENSION",
         recommendation |-> "SUSPEND face-to-face classes",
         actions |-> IF tcws_level >= 2
                     THEN TierBaseActions.RED \o TyphoonActions.RED
                     ELSE TierBaseActions.RED,
         monitoring_interval |-> "Continuous monitoring (hourly)"]

\* A raised exception, as a value.
Raised(exception) == [raised |-> exception]
Returned(value) == [returned |-> value]
IsRaised(x) == DOMAIN x = {"raised"}

\* Lines 195-207: the description band of a precipitation in whole mm.
WeatherDesc(precipitation_mm) ==
    IF 2 * precipitation_mm < 15 THEN "Light rain possible"
    ELSE IF precipitation_mm < 15 THEN "Moderate rain expected"
    ELSE IF precipitation_mm < 30 THEN "Heavy rain likely"
    ELSE IF precipitation_mm < 60 THEN "Very heavy rain expected"
    ELSE "Intense rainfall expected"

\* A Python value whose type matters to the code that reads it.
PyInt(n) == [int |-> n]
PyStr(s) == [str |-> s]

\* bool(x) of such a value, None included.
Truthy(x) == x # None /\ x # PyInt(0) /\ x # PyStr("")

\* Lines 172-217.  pagasa_warning is None, a str or an int: a true value
\* that is no str has no method title().
format_weather_context(precipitation_mm, weather_code, pagasa_warning, tcws_level, typhoon_name) ==
    LET rain == IF precipitation_mm # None
                THEN [weather_desc |-> WeatherDesc(precipitation_mm[1]),
                      precipitation |-> precipitation_mm[1]]
                ELSE EmptyDict
    IN  IF Truthy(pagasa_warning) THEN
            IF DOMAIN pagasa_warning = {"str"}
            THEN Update(rain, [pagasa_advisory |->
                                   [kind |-> "Rainfall Warning", level |-> pagasa_warning.str]])
            ELSE Raised("AttributeError")
        ELSE IF tcws_level > 0 THEN
            Update(rain, [pagasa_advisory |->
                              [kind |-> "TCWS Signal No.", tcws_level |-> tcws_level,
                               typhoon_name |-> typhoon_name]])
        ELSE rain

\* Lines 256-268: the dict returned, unless formatting the context raised.
Interpretation(probability, lgu_name, date, tier_details, weather_context) ==
    IF IsRaised(weather_context) THEN weather_context
    ELSE [lgu |-> lgu_name,
          date |-> date,
          model_probability |-> probability,
          risk_tier |-> tier_details,
          weather_context |-> weather_context]

\* Lines 220-268.
interpret_prediction(probability, lgu_name, date, precipitation_mm, weather_code, pagasa_warning, tcws_level, typhoon_name) ==
    Interpretation(
        probability, lgu_name, date,
        get_tier_details(get_risk_tier(probability), tcws_level),
        format_weather_context(precipitation_mm, weather_code, pagasa_warning, tcws_level,
                               typhoon_name))

(***************************************************************************)
(* The real-time run: src/scripts/collect_and_log.py, with                 *)
(* src/src/weather/weather_pipeline.py and src/database/supabase_client.py *)
(*                                                                         *)
(* Probabilities are in millionths.  The rule-based score is a sum of      *)
(* binary floating-point numbers: it is carried as <<d, o>>, d the nearest *)
(* millionth and o the sign of (sum - the double nearest to d millionths), *)
(* and handed on rounded down to a millionth, which orders it against      *)
(* every threshold as the doubles are ordered.                             *)
(***************************************************************************)

\* Lines 53-58 of collect_and_log.py, in the order of the source.
ClLgus ==
    <<"Manila", "Quezon City", "Caloocan", "Las Piñas", "Makati", "Malabon",
      "Mandaluyong", "Marikina", "Muntinlupa", "Navotas", "Parañaque", "Pasay",
      "Pasig", "Pateros", "San Juan", "Taguig", "Valenzuela">>

\* The status that PAGASAChecker.check_typhoon_status returns: the parsed
\* output of the bulletin parser, with the fields of the typhoon status
\* format.  The wind-signal level and the affected-area flag are separate
\* fields of the bulletin.
RainfallWarnings ==
    {[hasActiveWarning |-> FALSE],
     [hasActiveWarning |-> TRUE, warningLevel |-> "YELLOW"],
     [hasActiveWarning |-> TRUE, warningLevel |-> "RED"]}

PagasaStatuses ==
    [hasActiveTyphoon : BOOLEAN, metroManilaAffected : BOOLEAN, tcwsLevel : TCWS_LEVELS,
     rainfallWarning : RainfallWarnings]

\* The means over the units of today's forecast rows, in whole units; None
\* when the forecast has no row for today.
TodayForecasts ==
    {None} \cup
    {Some([forecast_precipitation_sum |-> p,
           forecast_precipitation_probability |-> 80,
           forecast_wind_speed_max |-> w,
           forecast_wind_gusts_max |-> w + 20,
           forecast_temperature_max |-> 29,
           forecast_humidity_mean |-> 85,
           forecast_cloud_cover |-> 90,
           forecast_weather_code |-> 63]) : p \in {0, 30, 60}, w \in {0, 50, 70}}

\* int(bool)
BoolInt(b) == IF b THEN 1 ELSE 0

\* rainfall_levels.get(rainfall.get('warningLevel'), 0), lines 78-81.
RainfallLevel(rainfall) ==
    LET warningLevel == Get(rainfall, "warningLevel", "")
    IN  IF warningLevel = "RED" THEN 3
        ELSE IF warningLevel = "ORANGE" THEN 2
        ELSE IF warningLevel = "YELLOW" THEN 1
        ELSE 0

\* weather_pipeline.py lines 49-174.
collect_realtime_weather_features(pagasa_status, today_forecast, today) ==
    LET rainfall == Get(pagasa_status, "rainfallWarning", EmptyDict)
        pagasa_features ==
            [tcws_level |-> Get(pagasa_status, "tcwsLevel", 0),
             metro_manila_affected |-> BoolInt(Get(pagasa_status, "metroManilaAffected", FALSE)),
             has_active_typhoon |-> BoolInt(Get(pagasa_status, "hasActiveTyphoon", FALSE)),
             has_rainfall_warning |-> BoolInt(Get(rainfall, "hasActiveWarning", FALSE)),
             rainfall_warning_level |-> RainfallLevel(rainfall)]
        weather_features ==
            IF today_forecast # None THEN today_forecast[1]
            ELSE [forecast_precipitation_sum |-> 0,
                  forecast_precipitation_probability |-> 0,
                  forecast_wind_speed_max |-> 0,
                  forecast_wind_gusts_max |-> 0,
                  forecast_temperature_max |-> 30,
                  forecast_humidity_mean |-> 70,
                  forecast_cloud_cover |-> 50,
                  forecast_weather_code |-> 0]
    IN  Update(Update(pagasa_features, weather_features), [date |-> today])

\* The float additions of the score whose result is not the decimal sum
\* carried with the same sign: <<<<d, o>>, addend>> |-> <<d', o'>>.
FloatAddInexact ==
    (<<<<100000, 0>>, 50000>> :> <<150000, 1>>)
    @@ (<<<<200000, 0>>, 100000>> :> <<300000, 1>>)
    @@ (<<<<300000, 0>>, 150000>> :> <<450000, -1>>)
    @@ (<<<<350000, 0>>, 50000>> :> <<400000, -1>>)
    @@ (<<<<350000, 0>>, 100000>> :> <<450000, -1>>)
    @@ (<<<<450000, -1>>, 150000>> :> <<600000, 0>>)
    @@ (<<<<550000, -1>>, 50000>> :> <<600000, 0>>)
    @@ (<<<<550000, -1>>, 150000>> :> <<700000, 0>>)
    @@ (<<<<550000, 0>>, 50000>> :> <<600000, 1>>)
    @@ (<<<<550000, 0>>, 150000>> :> <<700000, 1>>)
    @@ (<<<<650000, -1>>, 50000>> :> <<700000, 0>>)
    @@ (<<<<650000, 0>>, 50000>> :> <<700000, 1>>)
    @@ (<<<<650000, 0>>, 200000>> :> <<850000, 1>>)
    @@ (<<<<850000, 1>>, 150000>> :> <<1000000, 0>>)

\* risk_score += v
FloatAdd(x, v) ==
    IF <<x, v>> \in DOMAIN FloatAddInexact THEN FloatAddInexact[<<x, v>>]
    ELSE <<x[1] + v, x[2]>>

\* The float rounded down to a millionth.
FloatFloor(x) == IF x[2] < 0 THEN x[1] - 1 ELSE x[1]

\* if condition: risk_score += v
AddIf(condition, risk_score, v) == IF condition THEN FloatAdd(risk_score, v) ELSE risk_score

\* Lines 269-272.
AddPrecip(precip, risk_score) ==
    IF precip > 50 THEN FloatAdd(risk_score, 200000)
    ELSE IF precip > 20 THEN FloatAdd(risk_score, 100000)
    ELSE risk_score

\* Lines 274-277.
AddWind(wind, risk_score) ==
    IF wind > 60 THEN FloatAdd(risk_score, 150000)
    ELSE IF wind > 40 THEN FloatAdd(risk_score, 50000)
    ELSE risk_score

\* min(risk_score, 1.0)
CapAtOne(risk_score) == IF risk_score > ProbUnit THEN ProbUnit ELSE risk_score

\* Lines 254-281.
calculate_rule_based_score_from_features(features) ==
    CapAtOne(FloatFloor(
        AddWind(Get(features, "forecast_wind_speed_max", 0),
            AddPrecip(Get(features, "forecast_precipitation_sum", 0),
                AddIf(Get(features, "has_rainfall_warning", 0) # 0,
                    AddIf(Get(features, "tcws_level", 0) >= 2,
                        AddIf(Get(features, "has_active_typhoon", 0) # 0, <<0, 0>>, 300000),
                        200000),
                    150000)))))

\* The characters of the names in the order of their code points.
CodeOrder ==
    <<" ", ".", "A", "B", "C", "D", "E", "F", "G", "H", "I", "J", "K", "L", "M", "N",
      "O", "P", "Q", "R", "S", "T", "U", "V", "W", "X", "Y", "Z", "a", "b", "c", "d",
      "e", "f", "g", "h", "i", "j", "k", "l", "m", "n", "o", "p", "q", "r", "s", "t",
      "u", "v", "w", "x", "y", "z", "±", "Ã", "Ñ", "ã", "ñ">>

CodeRank(c) == IndexOf(CodeOrder, c)

\* a < b for two str.
RECURSIVE StrBefore(_, _)
StrBefore(a, b) ==
    IF b = <<>> THEN FALSE
    ELSE IF a = <<>> THEN TRUE
    ELSE IF Head(a) # Head(b) THEN CodeRank(Head(a)) < CodeRank(Head(b))
    ELSE StrBefore(Tail(a), Tail(b))

\* sorted(names), for a list of distinct canonical names.
PySorted(names) ==
    LET n == Len(names)
        rank(i) == Cardinality({j \in 1..n : StrBefore(Spelling[names[j]], Spelling[names[i]])})
    IN  [k \in 1..n |-> names[CHOOSE i \in 1..n : rank(i) = k - 1]]

lgu_id_map_unsorted == [l \in {ClLgus[i] : i \in DOMAIN ClLgus} |-> IndexOf(ClLgus, l) - 1]

\* Lines 120-122: {lgu: idx for idx, lgu in enumerate(sorted(METRO_MANILA_LGUS))}
lgu_id_map ==
    [l \in {ClLgus[i] : i \in DOMAIN ClLgus} |-> IndexOf(PySorted(ClLgus), l) - 1]

\* What load_model returns: None, or a classifier.  A classifier is taken
\* for what it does when asked: the probability it gives and the units for
\* which predicting raises.
ClassifierProbas == {200000, 600000}

ClassifierFailures ==
    {{}, {"Manila"}, {"Pasig", "Taguig"}, {ClLgus[i] : i \in DOMAIN ClLgus}}

ClModels ==
    {None} \cup {Some([proba |-> p, raises |-> F]) : p \in ClassifierProbas,
                                                      F \in ClassifierFailures}

\* Lines 165-251: the feature row given to the classifier (its temporal
\* columns and lgu_id) and what predict_proba gives for it.
predict_with_model(model, weather_features, lgu, lgu_id, today) ==
    [X |-> Update(PredictTemporal(today), [lgu |-> lgu, lgu_id |-> lgu_id]),
     result |-> IF lgu \in model.raises THEN Raised("Exception") ELSE Returned(model.proba)]

\* Lines 125-137: the probability of one unit and where it came from.  call
\* is what predict_with_model did, None without a model.
UnitScore(call, weather_features) ==
    IF call # None /\ ~IsRaised(call[1].result)
    THEN [producer |-> "model", risk_score |-> call[1].result.returned,
          calls |-> <<call[1].X>>, failed |-> FALSE]
    ELSE [producer |-> "rule_based",
          risk_score |-> calculate_rule_based_score_from_features(weather_features),
          calls |-> IF call # None THEN <<call[1].X>> ELSE <<>>,
          failed |-> call # None]

\* Lines 152-160: the prediction appended, unless the interpretation raised.
UnitPrediction(score, lgu, today, interpretation) ==
    [calls |-> score.calls,
     failed |-> IF score.failed THEN <<lgu>> ELSE <<>>,
     producer |-> score.producer,
     prediction |->
         IF IsRaised(interpretation) THEN interpretation
         ELSE [prediction_date |-> today,
               lgu |-> lgu,
               suspension_probability |-> score.risk_score,
               predicted_suspended |-> (score.risk_score >= 500000),
               risk_tier |-> interpretation.risk_tier,
               weather_context |-> interpretation.weather_context]]

\* Lines 139-150.
InterpretUnit(score, lgu, today, weather_features) ==
    UnitPrediction(
        score, lgu, today,
        interpret_prediction(
            score.risk_score, lgu, today,
            Some(weather_features.forecast_precipitation_sum),
            Some(weather_features.forecast_weather_code),
            PyInt(weather_features.rainfall_warning_level),
            Get(weather_features, "tcws_level", 0),
            None))

\* Lines 124-160: the loop body for one unit.
PredictUnit(weather_features, model, lgu, today) ==
    InterpretUnit(
        UnitScore(IF model # None
                  THEN Some(predict_with_model(model[1], weather_features, lgu,
                                               lgu_id_map[lgu], today))
                  ELSE None,
                  weather_features),
        lgu, today, weather_features)

RECURSIVE PredictLoop(_, _, _, _, _)

\* The bookkeeping after the body: an exception ends the call.
PredictNext(r, u, rest, weather_features, model, today) ==
    IF IsRaised(u.prediction)
    THEN [r EXCEPT !.predict_calls = @ \o u.calls,
                   !.failed = @ \o u.failed,
                   !.raised = Some(u.prediction.raised)]
    ELSE PredictLoop([r EXCEPT !.predict_calls = @ \o u.calls,
                               !.failed = @ \o u.failed,
                               !.predictions = Append(@, u.prediction),
                               !.producers = Append(@, u.producer)],
                     rest, weather_features, model, today)

PredictLoop(r, lgus, weather_features, model, today) ==
    IF lgus = <<>> THEN r
    ELSE PredictNext(r, PredictUnit(weather_features, model, Head(lgus), today),
                     Tail(lgus), weather_features, model, today)

\* Lines 102-162.  raised: the exception that ended the call, if any.
generate_predictions(weather_features, model, today) ==
    PredictLoop([predictions |-> <<>>, producers |-> <<>>, predict_calls |-> <<>>,
                 failed |-> <<>>, raised |-> None],
                ClLgus, weather_features, model, today)

\* supabase_client.py lines 91-107: the records upserted.
log_predictions(predictions, threshold) ==
    [i \in DOMAIN predictions |->
        [prediction_date |-> predictions[i].prediction_date,
         lgu |-> predictions[i].lgu,
         suspension_probability |-> predictions[i].suspension_probability,
         predicted_suspended |-> predictions[i].predicted_suspended,
         threshold_used |-> threshold]]

\* The values of --threshold and the dates of the runs.
ClThresholds == {300000, 500000, 700000}
ClTodays == {<<2025, 9, 23>>}

IdleCl == cl_args = NotRun /\ cl_features = None /\ cl_run = NotRun

\* The values of --date: none, or a day that is not the day of the run.
ClDateArgs == {None, Some(<<2025, 11, 2>>)}

\* main, lines 351-355: the date of the predictions.
PredictionDate(date_arg, today) == IF date_arg # None THEN date_arg[1] ELSE today

\* main, lines 345-355: the arguments are parsed; today is date.today().
ClStart ==
    /\ script = "none"
    /\ cl_args = NotRun
    /\ \E t \in ClThresholds, d \in ClTodays, a \in ClDateArgs :
         cl_args' = [run |-> TRUE, threshold |-> t, today |-> d, date |-> a,
                     prediction_date |-> PredictionDate(a, d)]
    /\ script' = "collect_and_log"
    /\ UNCHANGED <<cl_features, cl_run, otherThanCl>>

\* main, step 1 (lines 399-439): the features are collected.
ClCollect ==
    /\ script = "collect_and_log"
    /\ cl_features = None
    /\ cl_run = NotRun
    /\ \E pagasa_status \in PagasaStatuses, today_forecast \in TodayForecasts :
         cl_features' = Some(collect_realtime_weather_features(
                                 pagasa_status, today_forecast, cl_args.today))
    /\ UNCHANGED <<script, cl_args, cl_run, otherThanCl>>

\* Lines 446-507: what step 2 leaves; an exception leaves nothing logged.
PredictionStep(r, model, threshold) ==
    [run |-> TRUE,
     model_loaded |-> model # None,
     predictions |-> IF r.raised = None THEN r.predictions ELSE <<>>,
     producers |-> r.producers,
     predict_calls |-> r.predict_calls,
     failed |-> r.failed,
     predictions_error |-> r.raised,
     logged |-> IF r.raised = None THEN log_predictions(r.predictions, threshold) ELSE <<>>]

\* main, step 2 (lines 446-507): the model is loaded, the predictions are
\* generated and logged.
ClPredict ==
    /\ script = "collect_and_log"
    /\ cl_features # None
    /\ cl_run = NotRun
    /\ \E model \in ClModels :
         cl_run' = PredictionStep(generate_predictions(cl_features[1], model, cl_args.today),
                                  model, cl_args.threshold)
    /\ UNCHANGED <<script, cl_args, cl_features, otherThanCl>>

\* The script ends.
ClExit ==
    /\ script = "collect_and_log"
    /\ cl_run # NotRun
    /\ script' = "none"
    /\ cl_args' = NotRun
    /\ cl_features' = None
    /\ cl_run' = NotRun
    /\ UNCHANGED otherThanCl

NextRealtime == ClStart \/ ClCollect \/ ClPredict \/ ClExit

(***************************************************************************)
(* Claims about the real-time run.                                         *)
(***************************************************************************)
ClDone == cl_run # NotRun
ClPredictions == {cl_run.predictions[i] : i \in DOMAIN cl_run.predictions}

\* C12: when the affected-area flag is false, the raw wind-signal level adds
\* no typhoon action to the tier of a prediction and does not raise the
\* rule-based score: the actions are the tier's base actions and the score
\* is the score of the same features with level 0.  The real-time run hands
\* the raw level to both.
C12_GatedLevelDecides ==
    (ClDone /\ cl_features[1].metro_manila_affected = 0) =>
        \A i \in DOMAIN cl_run.predictions :
            LET prediction == cl_run.predictions[i]
            IN  /\ prediction.risk_tier.actions = TierBaseActions[prediction.risk_tier.tier]
                /\ cl_run.producers[i] = "rule_based" =>
                       prediction.suspension_probability =
                           calculate_rule_based_score_from_features(
                               Update(cl_features[1], [tcws_level |-> 0]))

\* C16: every prediction logged by a run with threshold t has
\* predicted_suspended = (suspension_probability >= t), t being the
\* threshold_used stored with it, and its tier is decided by the
\* probability alone.  The code decides predicted_suspended against 0.5
\* whatever t is.
C16_ThresholdApplied ==
    ClDone =>
        \A i \in DOMAIN cl_run.logged :
            LET record == cl_run.logged[i]
            IN  /\ record.threshold_used = cl_args.threshold
                /\ record.predicted_suspended =
                       (record.suspension_probability >= record.threshold_used)
                /\ cl_run.predictions[i].risk_tier.tier =
                       get_risk_tier(record.suspension_probability)

\* The feature rows the classifier was asked about in the run.
C18_Calls == {cl_run.predict_calls[i] : i \in DOMAIN cl_run.predict_calls}

\* C18: the index given to the classifier for a unit is the index of
\* engineer_features.LGU_ID_MAP, lies in 0..16 and differs between units;
\* over the 17 units the indices are exactly 0..16; the mis-decoded
\* spellings of LGU_ID_MAP have the index of their unit.
C18_UnitIndex ==
    ClDone =>
        /\ \A c \in C18_Calls :
             /\ c.lgu_id = LGU_ID_MAP[c.lgu]
             /\ c.lgu_id \in 0..16
             /\ \A c2 \in C18_Calls : c2.lgu # c.lgu => c2.lgu_id # c.lgu_id
             /\ c.lgu = "Las Piñas" => LGU_ID_MAP["Las PiÃ±as"] = c.lgu_id
             /\ c.lgu = "Parañaque" => LGU_ID_MAP["ParaÃ±aque"] = c.lgu_id
        /\ Len(cl_run.predict_calls) = Len(ClLgus) =>
               {c.lgu_id : c \in C18_Calls} = 0..16

\* A run with a classifier that is asked about all 17 units: Manila, first
\* in the list of the script, has index 5, Parañaque index 9.
C18_Witness ==
    /\ ClDone
    /\ Len(cl_run.predict_calls) = 17
    /\ cl_run.predict_calls[1].lgu = "Manila"
    /\ cl_run.predict_calls[1].lgu_id = 5
    /\ \E c \in C18_Calls : c.lgu = "Parañaque" /\ c.lgu_id = 9

\* C20: the probabilities of the predictions of one call all come from the
\* same producer, the classifier or the rule-based scorer.  The code falls
\* back to the scorer for the one unit whose classifier call raised.
C20_SingleProducer ==
    ClDone =>
        \A i, j \in DOMAIN cl_run.predictions : cl_run.producers[i] = cl_run.producers[j]

\* C22: in a run with --date D, every prediction generated and logged has
\* prediction_date = D, and the temporal columns of every row given to the
\* classifier are those of D.  The code takes both from date.today().
C22_DateArgumentUsed ==
    (ClDone /\ cl_args.date # None) =>
        /\ \A i \in DOMAIN cl_run.predictions :
             cl_run.predictions[i].prediction_date = cl_args.date[1]
        /\ \A i \in DOMAIN cl_run.logged :
             cl_run.logged[i].prediction_date = cl_args.date[1]
        /\ \A i \in DOMAIN cl_run.predict_calls :
             \A f \in DOMAIN PredictTemporal(cl_args.date[1]) :
                 cl_run.predict_calls[i][f] = PredictTemporal(cl_args.date[1])[f]

\* C23: for every feature set the collection can produce and with or
\* without a model, generate_predictions raises nothing and returns exactly
\* 17 predictions, one per unit.  With an active rainfall warning the code
\* raises AttributeError while interpreting the first unit.
C23_SeventeenPredictions ==
    ClDone =>
        /\ cl_run.predictions_error = None
        /\ Len(cl_run.predictions) = 17
        /\ \A i \in DOMAIN ClLgus : cl_run.predictions[i].lgu = ClLgus[i]

(***************************************************************************)
(* PAGASAChecker.check_typhoon_status (src/src/weather/pagasa_checker.py). *)
(* The parser is a Node.js subprocess; what it does is an input: how the   *)
(* process ended and what the output file holds afterwards.                *)
(***************************************************************************)

\* How subprocess.run ends (lines 64-72): the exit code of the parser, the
\* timeout, or an OSError when node cannot be started.
ParserOutcomes ==
    {[kind |-> "exit", returncode |-> 0], [kind |-> "exit", returncode |-> 1],
     [kind |-> "timeout", returncode |-> 0], [kind |-> "oserror", returncode |-> 0]}

\* The wind-signal levels an output file may hold, 6 being out of range.
FileLevels == {0, 3, 5, 6}

\* A JSON object of the output file, each of the three fields present or not.
StatusObject(h, m, t) ==
    (IF h = None THEN EmptyDict ELSE [hasActiveTyphoon |-> h[1]])
    @@ (IF m = None THEN EmptyDict ELSE [metroManilaAffected |-> m[1]])
    @@ (IF t = None THEN EmptyDict ELSE [tcwsLevel |-> t[1]])

StatusObjects ==
    {StatusObject(h, m, t) : h \in {None, Some(TRUE), Some(FALSE)},
                             m \in {None, Some(TRUE), Some(FALSE)},
                             t \in {None} \cup {Some(l) : l \in FileLevels}}

\* What pagasa_status.json is when it is read (lines 81-85): missing, not
\* JSON, a JSON value that is no object, or an object.
OutputFiles ==
    {[kind |-> "missing", data |-> EmptyDict], [kind |-> "invalid", data |-> EmptyDict],
     [kind |-> "array", data |-> EmptyDict]}
    \cup {[kind |-> "object", data |-> o] : o \in StatusObjects}

\* Lines 162-174, without the time of the call.
create_error_response(error_message) ==
    [hasActiveTyphoon |-> FALSE,
     typhoonStatus |-> "ERROR",
     metroManilaAffected |-> FALSE,
     tcwsLevel |-> 0,
     affectedAreas |-> <<>>,
     rainfallWarning |-> [hasActiveWarning |-> FALSE],
     error |-> error_message]

\* Lines 80-88: the file is read and returned as it is; data.get of line 87
\* raises for a JSON value that is no object.
ReadOutputFile(file) ==
    CASE file.kind = "missing" -> Returned(create_error_response("Output file not created"))
      [] file.kind = "invalid" -> Raised("JSONDecodeError")
      [] file.kind = "array" -> Raised("AttributeError")
      [] OTHER -> Returned(file.data)

\* The body of the try, lines 61-88.
RunParser(outcome, file) ==
    CASE outcome.kind = "timeout" -> Raised("TimeoutExpired")
      [] outcome.kind = "oserror" -> Raised("FileNotFoundError")
      [] outcome.returncode # 0 -> Returned(create_error_response("Unknown error"))
      [] OTHER -> ReadOutputFile(file)

\* Lines 90-100: every exception of the body becomes an error response.
HandleParserError(r) ==
    IF IsRaised(r) THEN Returned(create_error_response(r.raised)) ELSE r

check_typhoon_status(outcome, file) == HandleParserError(RunParser(outcome, file))

IdleChecker == pc_outcome = NotRun /\ pc_file = NotRun /\ pc_status = NotRun

\* The parser and the file system, as the call will find them.
ParserEnvironment ==
    /\ script = "none"
    /\ pc_outcome = NotRun
    /\ \E outcome \in ParserOutcomes, file \in OutputFiles :
         /\ pc_outcome' = outcome
         /\ pc_file' = file
    /\ script' = "pagasa_checker"
    /\ UNCHANGED <<pc_status, otherThanChecker>>

\* One call of check_typhoon_status.
CheckTyphoonStatus ==
    /\ script = "pagasa_checker"
    /\ pc_status = NotRun
    /\ pc_status' = check_typhoon_status(pc_outcome, pc_file)
    /\ UNCHANGED <<script, pc_outcome, pc_file, otherThanChecker>>

\* The caller ends.
CheckerExit ==
    /\ script = "pagasa_checker"
    /\ pc_status # NotRun
    /\ script' = "none"
    /\ pc_outcome' = NotRun
    /\ pc_file' = NotRun
    /\ pc_status' = NotRun
    /\ UNCHANGED otherThanChecker

NextChecker == ParserEnvironment \/ CheckTyphoonStatus \/ CheckerExit

(***************************************************************************)
(* Claims about the PAGASA checker.                                        *)
(***************************************************************************)

\* The call never raises: its result is a returned value.
C21_NeverRaises == pc_status # NotRun => ~IsRaised(pc_status)

\* C21: check_typhoon_status never raises and always returns a dict that
\* holds hasActiveTyphoon, metroManilaAffected and tcwsLevel with
\* 0 <= tcwsLevel <= 5, however the parser ended and whatever JSON object
\* the output file holds.  The code returns the object of the file as it is.
C21_StatusWellFormed ==
    pc_status # NotRun =>
        /\ ~IsRaised(pc_status)
        /\ {"hasActiveTyphoon", "metroManilaAffected", "tcwsLevel"} \subseteq DOMAIN pc_status.returned
        /\ pc_status.returned.tcwsLevel \in 0..5

(***************************************************************************)
(* Batches with a bad record: engineer_features on a forecast file with a  *)
(* unit outside LGU_ID_MAP, and src/backfill/generate_predictions.py on a  *)
(* feature file with a vector that lacks a feature.                        *)
(***************************************************************************)

\* The units of the forecast file: one of the mapping, one outside it.
BatchLgus == {"Manila", "Antipolo"}
BatchDates == {FeatLastDate, PrevDay(FeatLastDate)}

\* The collector adds a record for any unit it was asked about.
WriteBatchForecastRecord ==
    /\ script \in {"none", "engineer_features"}
    /\ ef_run = NotRun
    /\ Cardinality(DOMAIN forecast_by_lgu_date) < MaxArchive
    /\ \E lgu \in BatchLgus, date \in BatchDates :
         /\ <<lgu, date>> \notin DOMAIN forecast_by_lgu_date
         /\ \E weather \in {RainyDay, TyphoonDay} :
              forecast_by_lgu_date' =
                  Update(forecast_by_lgu_date,
                         [k \in {<<lgu, date>>} |-> ForecastRecord(lgu, date, weather)])
    /\ script' = "engineer_features"
    /\ UNCHANGED <<pagasa_by_date, ef_run, otherThanEf>>

\* generate_predictions.py line 45.
THRESHOLD == 500000

\* The units of the feature file, in the order of the file.
BpLgus == <<"Manila", "Pasig", "Taguig">>

\* A vector of the feature file: complete, without fcst_cape_max, or with a
\* null fcst_precipitation_sum.
BpVector(lgu, kind) ==
    LET key == <<lgu, FeatLastDate>>
        good == FeatureVector(key, [k \in {key} |-> ForecastRecord(lgu, FeatLastDate, RainyDay)],
                              EmptyDict)
    IN  CASE kind = "short" ->
                 [good EXCEPT !.features =
                     [k \in DOMAIN good.features \ {"fcst_cape_max"} |-> good.features[k]]]
          [] kind = "null" -> [good EXCEPT !.features.fcst_precipitation_sum = None]
          [] OTHER -> good

BpKinds == {"complete", "short", "null"}

\* load_features (lines 84-94): the feature files of the model.
BpFeatureFiles ==
    UNION {{[i \in 1..n |-> BpVector(BpLgus[i], kinds[i])] : kinds \in [1..n -> BpKinds]} :
               n \in 1..Len(BpLgus)}

\* The classifier: the probability it gives, and whether predict_proba
\* raises for a row with a missing value.
BpModels == [proba : ClassifierProbas, rejects_nan : BOOLEAN]

\* Line 128: pd.DataFrame([features])[FEATURE_ORDER] needs every column.
HasFeatureOrder(features) ==
    \A i \in DOMAIN FEATURE_ORDER : FEATURE_ORDER[i] \in DOMAIN features

\* Line 133: predict_proba on the row.
PredictProba(model, features) ==
    IF model.rejects_nan /\ \E i \in DOMAIN FEATURE_ORDER : features[FEATURE_ORDER[i]] = None
    THEN Raised("ValueError")
    ELSE Returned(model.proba)

\* Lines 139-162: the record of a prediction, or the exception of the
\* interpretation.
BpPrediction(fv, proba, interpretation) ==
    IF IsRaised(interpretation) THEN interpretation
    ELSE Returned([prediction_date |-> fv.date,
                   lgu |-> fv.lgu,
                   suspension_probability |-> proba,
                   predicted_suspended |-> (proba >= THRESHOLD),
                   risk_tier |-> interpretation.risk_tier,
                   weather_context |-> interpretation.weather_context,
                   threshold_used |-> THRESHOLD,
                   pagasa_context |-> fv.pagasa_context])

\* Lines 131-162: the body of the try for one vector.
BpTry(fv, proba) ==
    IF IsRaised(proba) THEN proba
    ELSE BpPrediction(
             fv, proba.returned,
             interpret_prediction(proba.returned, fv.lgu, fv.date, None, None,
                                  PyStr(fv.pagasa_context.rainfall_warning),
                                  Get(fv.pagasa_context, "tcws_level", 0), None))

\* Lines 164-168: a prediction is appended; an exception of the try is
\* printed with the key and the loop goes on.
BpAfterTry(r, fv, outcome) ==
    IF IsRaised(outcome) THEN [r EXCEPT !.reported = Append(@, <<fv.lgu, fv.date>>)]
    ELSE [r EXCEPT !.predictions = Append(@, outcome.returned)]

\* Lines 117-168: the loop body; the column selection is before the try.
BpStep(r, fv, model) ==
    IF ~HasFeatureOrder(fv.features) THEN [r EXCEPT !.exit = "KeyError"]
    ELSE BpAfterTry(r, fv, BpTry(fv, PredictProba(model, fv.features)))

RECURSIVE BpLoop(_, _, _)
BpLoop(r, feature_vectors, model) ==
    IF feature_vectors = <<>> \/ r.exit # "ok" THEN r
    ELSE BpLoop(BpStep(r, Head(feature_vectors), model), Tail(feature_vectors), model)

\* generate_predictions of src/backfill/generate_predictions.py (lines
\* 99-173).  exit is "ok" when the call returns, else the exception.
backfill_generate_predictions(model, feature_vectors) ==
    BpLoop([run |-> TRUE, exit |-> "ok", predictions |-> <<>>, reported |-> <<>>],
           feature_vectors, model)

\* main (lines 282-319): the predictions file is written when
\* generate_predictions returned.
BpMain(model, feature_vectors) ==
    LET r == backfill_generate_predictions(model, feature_vectors)
    IN  [run |-> TRUE, exit |-> r.exit, reported |-> r.reported,
         predictions |-> IF r.exit = "ok" THEN r.predictions ELSE <<>>,
         written |-> r.exit = "ok"]

IdleBatch == bp_vectors = <<>> /\ bp_run = NotRun

\* The feature file is there.
BpLoadFeatures ==
    /\ script = "none"
    /\ bp_vectors = <<>>
    /\ \E f \in BpFeatureFiles : bp_vectors' = f
    /\ script' = "generate_predictions"
    /\ UNCHANGED <<bp_run, efVars, otherThanBatchEf>>

\* One run of the script.
BpGenerate ==
    /\ script = "generate_predictions"
    /\ bp_run = NotRun
    /\ \E model \in BpModels : bp_run' = BpMain(model, bp_vectors)
    /\ UNCHANGED <<script, bp_vectors, efVars, otherThanBatchEf>>

\* The script ends.
BpExit ==
    /\ script = "generate_predictions"
    /\ bp_run # NotRun
    /\ script' = "none"
    /\ bp_vectors' = <<>>
    /\ bp_run' = NotRun
    /\ UNCHANGED <<efVars, otherThanBatchEf>>

NextBatch ==
    WriteBatchForecastRecord \/ EngineerFeatures \/ EfExit
    \/ BpLoadFeatures \/ BpGenerate \/ BpExit

(***************************************************************************)
(* Claims about batches with a bad record.                                 *)
(***************************************************************************)

\* engineer_features: every record of a unit of the mapping has its vector.
C24_FeaturesIsolated ==
    EfDone =>
        \A k \in DOMAIN forecast_by_lgu_date :
            k[1] \in DOMAIN LGU_ID_MAP => \E fv \in EfVectors : fv.lgu = k[1] /\ fv.date = k[2]

\* generate_predictions: every complete vector has its prediction and every
\* vector that lacks a feature has its key reported.
C24_PredictionsIsolated ==
    bp_run # NotRun =>
        \A i \in DOMAIN bp_vectors :
            IF HasFeatureOrder(bp_vectors[i].features)
            THEN \/ \E j \in DOMAIN bp_run.predictions :
                        /\ bp_run.predictions[j].lgu = bp_vectors[i].lgu
                        /\ bp_run.predictions[j].prediction_date = bp_vectors[i].date
                 \/ \E j \in DOMAIN bp_run.reported :
                        bp_run.reported[j] = <<bp_vectors[i].lgu, bp_vectors[i].date>>
            ELSE \E j \in DOMAIN bp_run.reported :
                     bp_run.reported[j] = <<bp_vectors[i].lgu, bp_vectors[i].date>>

\* C24: a single bad record does not abort a batch.  In engineer_features a
\* forecast record of a unit outside the index mapping, and in the backfill
\* generate_predictions a vector without one of the 33 features, fails that
\* record only: the other records are processed and the failed key is
\* reported.  In the code both are a KeyError outside any try, and the run
\* ends with nothing written.
C24_BadRecordIsolated == C24_FeaturesIsolated /\ C24_PredictionsIsolated

(***************************************************************************)
(* Claims about the per-slice counts of the two metric engines.            *)
(***************************************************************************)

\* The sum of a counter over the slices of a dict of counters.
RECURSIVE C25_SumField(_, _, _)
C25_SumField(d, keys, field) ==
    IF keys = {} THEN 0
    ELSE LET k == CHOOSE x \in keys : TRUE
         IN  d[k][field] + C25_SumField(d, keys \ {k}, field)

\* The sum of a dict of counts.
RECURSIVE C25_SumCounts(_, _)
C25_SumCounts(d, keys) ==
    IF keys = {} THEN 0
    ELSE LET k == CHOOSE x \in keys : TRUE
         IN  d[k] + C25_SumCounts(d, keys \ {k})

\* The known pairs of a unit with the given prediction and outcome.
C25_UnitRecount(lgu, predicted, actual) ==
    Cardinality({i \in PerfKnown :
        /\ predictions_with_actual[i].lgu = lgu
        /\ predictions_with_actual[i].predicted_suspended = predicted
        /\ predictions_with_actual[i].actual_suspended = Some(actual)})

\* The entries of a list of analyze_predictions that are of a date.
C25_DateRecount(list, date) == Cardinality({i \in DOMAIN list : list[i].date = date})

\* calculate_performance_metrics: the counts per unit and per tier.
C25_UnitAndTierCounts ==
    performance # NotRun =>
        LET cm == performance.confusion_matrix
            lm == performance.lgu_metrics
            units == DOMAIN lm
            tier_counts == PerfLoop(PerfCounters, predictions_with_actual).tier_counts
        IN  /\ \A l \in units :
                 /\ lm[l].tp + lm[l].fp + lm[l].tn + lm[l].fn = lm[l].total_predictions
                 /\ lm[l].tp = C25_UnitRecount(l, TRUE, TRUE)
                 /\ lm[l].fp = C25_UnitRecount(l, TRUE, FALSE)
                 /\ lm[l].tn = C25_UnitRecount(l, FALSE, FALSE)
                 /\ lm[l].fn = C25_UnitRecount(l, FALSE, TRUE)
            /\ C25_SumField(lm, units, "tp") = cm.true_positive
            /\ C25_SumField(lm, units, "fp") = cm.false_positive
            /\ C25_SumField(lm, units, "tn") = cm.true_negative
            /\ C25_SumField(lm, units, "fn") = cm.false_negative
            /\ C25_SumCounts(tier_counts, DOMAIN tier_counts)
                   = performance.prediction_summary.total_predictions

\* analyze_predictions: the counts per date.
C25_DateCounts ==
    an_results # NotRun =>
        LET da == an_results.date_analysis
            dates == DOMAIN da
        IN  /\ \A d \in dates :
                 /\ da[d].tp = C25_DateRecount(an_results.tp, d)
                 /\ da[d].fp = C25_DateRecount(an_results.fp, d)
                 /\ da[d].fn = C25_DateRecount(an_results.fn, d)
                 /\ da[d].tn = C25_DateRecount(an_results.tn, d)
            /\ C25_SumField(da, dates, "tp") = Len(an_results.tp)
            /\ C25_SumField(da, dates, "fp") = Len(an_results.fp)
            /\ C25_SumField(da, dates, "fn") = Len(an_results.fn)
            /\ C25_SumField(da, dates, "tn") = Len(an_results.tn)

\* C25: the counts of every slice equal a recount from the raw pairs.  In
\* calculate_performance_metrics tp + fp + tn + fn of a unit is its total,
\* the counts of the units sum to the overall TP, FP, TN and FN, and the
\* counts of the tiers sum to total_predictions; in analyze_predictions the
\* tp, fp, fn and tn of the dates sum to the lengths of the four lists.
C25_SliceCounts == C25_UnitAndTierCounts /\ C25_DateCounts

\* Three known pairs over two units and two tiers.
C25_Witness ==
    /\ performance # NotRun
    /\ Cardinality(PerfKnown) = 3
    /\ DOMAIN performance.lgu_metrics = PerfLgus
    /\ performance.confusion_matrix.true_positive = 1
    /\ performance.confusion_matrix.false_negative = 1
    /\ \E i, j \in PerfKnown :
         predictions_with_actual[i].tier # predictions_with_actual[j].tier

\* Four predictions over two dates, one in each list.
C25_DateWitness ==
    /\ an_results # NotRun
    /\ DOMAIN an_results.date_analysis = AnDates
    /\ Len(an_results.tp) = 1 /\ Len(an_results.fp) = 1
    /\ Len(an_results.fn) = 1 /\ Len(an_results.tn) = 1

(***************************************************************************)
(* get_tier_details (src/src/weather/risk_tiers.py), called on its own.    *)
(***************************************************************************)

\* The members of RiskTier (lines 21-25).
RiskTiers == {"GREEN", "ORANGE", "RED"}

IdleDetails == details_log = <<>>

\* One call of get_tier_details, for any tier and wind-signal level.
GetTierDetails ==
    /\ script \in {"none", "risk_tiers"}
    /\ Len(details_log) < MaxCalls
    /\ \E tier \in RiskTiers, tcws_level \in TCWS_LEVELS :
         details_log' = Append(details_log,
                               [tier |-> tier, tcws_level |-> tcws_level,
                                details |-> get_tier_details(tier, tcws_level)])
    /\ script' = "risk_tiers"
    /\ UNCHANGED otherThanDetails

\* A new caller.
ResetDetails ==
    /\ script = "risk_tiers"
    /\ details_log # <<>>
    /\ details_log' = <<>>
    /\ script' = "none"
    /\ UNCHANGED otherThanDetails

NextDetails == GetTierDetails \/ ResetDetails

(***************************************************************************)
(* Claims about the tier details.                                          *)
(***************************************************************************)

\* The actions of a call start with the base actions of its tier.
C26_BasePrefix(call) ==
    /\ Len(call.details.actions) >= Len(TierBaseActions[call.tier])
    /\ SubSeq(call.details.actions, 1, Len(TierBaseActions[call.tier]))
           = TierBaseActions[call.tier]

\* The condition under which actions are appended.
C26_Augmented(call) ==
    \/ call.tier = "ORANGE" /\ call.tcws_level >= 1
    \/ call.tier = "RED" /\ call.tcws_level >= 2

\* C26: for every tier and every wind-signal level 0..5 the details have
\* the tier passed in and the base actions of the tier as a prefix of their
\* actions; actions are appended exactly when the tier is ORANGE and the
\* level is at least 1 or the tier is RED and the level is at least 2,
\* never for GREEN; title, recommendation and monitoring interval are those
\* of the same tier at level 0.
C26_TierDetailsFrame ==
    \A i \in DOMAIN details_log :
        LET call == details_log[i]
            level0 == get_tier_details(call.tier, 0)
        IN  /\ call.details.tier = call.tier
            /\ C26_BasePrefix(call)
            /\ (Len(call.details.actions) > Len(TierBaseActions[call.tier]))
                   <=> C26_Augmented(call)
            /\ call.tier = "GREEN" => call.details.actions = TierBaseActions.GREEN
            /\ call.details.title = level0.title
            /\ call.details.recommendation = level0.recommendation
            /\ call.details.monitoring_interval = level0.monitoring_interval

\* RED at level 1 keeps its five base actions; ORANGE at level 1 has six.
C26_Witness ==
    /\ Len(details_log) = 2
    /\ details_log[1].tier = "RED" /\ details_log[1].tcws_level = 1
    /\ Len(details_log[1].details.actions) = 5
    /\ details_log[2].tier = "ORANGE" /\ details_log[2].tcws_level = 1
    /\ Len(details_log[2].details.actions) = 6

(***************************************************************************)
(* fetch_weather_for_lgu (src/backfill/collect_historical_weather.py): the *)
(* retry loop, one action per attempt.  What the API answers is an input.  *)
(***************************************************************************)

\* The largest retry_count tried (the default is 3).
MaxRetries == 3

\* Line 73.
RETRY_DELAY == 5

\* What requests.get gives (lines 103-140): status 200 with 'daily' (one of
\* two data sets), status 200 without 'daily', status 429, another status,
\* a timeout, a connection error.
ApiResponses ==
    {[kind |-> "ok", daily |-> d] : d \in {"daily_a", "daily_b"}}
    \cup {[kind |-> k, daily |-> "none"] :
              k \in {"no_daily", "rate_limited", "http_error", "timeout", "connection_error"}}

\* The failures after which the loop asks again when attempts are left.
RetryableKinds == {"rate_limited", "http_error", "timeout", "connection_error"}

\* return v
FetchReturn(call, v) == [call EXCEPT !.status = "returned", !.result = v]

\* time.sleep(wait); continue
FetchSleepAndContinue(call, wait) ==
    [call EXCEPT !.slept = Append(@, wait), !.attempt = @ + 1]

\* Mutant: no failure is retried.
FetchAttempt_noretry(call, response) ==
    FetchReturn([call EXCEPT !.requests = Append(@, response)],
                IF response.kind = "ok" THEN Some(response.daily) ELSE None)

\* Lines 102-144: one pass of the loop body, with the request made.
FetchAttempt(call, response) ==
    LET made == [call EXCEPT !.requests = Append(@, response)]
    IN  CASE response.kind = "ok" -> FetchReturn(made, Some(response.daily))
          [] response.kind = "no_daily" -> FetchReturn(made, None)
          [] response.kind = "rate_limited" ->
                 FetchSleepAndContinue(made, RETRY_DELAY * (call.attempt + 1))
          [] OTHER ->
                 IF call.attempt < call.retry_count - 1
                 THEN FetchSleepAndContinue(made, RETRY_DELAY)
                 ELSE FetchReturn(made, None)

IdleFetch == fw_call = NotRun

\* The call, lines 64-100.
FwCall ==
    /\ script = "none"
    /\ fw_call = NotRun
    /\ \E retry_count \in 0..MaxRetries :
         fw_call' = [run |-> TRUE, retry_count |-> retry_count, attempt |-> 0,
                     requests |-> <<>>, slept |-> <<>>, status |-> "running",
                     result |-> None]
    /\ script' = "fetch_weather_for_lgu"
    /\ UNCHANGED otherThanFetch

\* for attempt in range(retry_count): one request and what follows it.
FwAttempt ==
    /\ script = "fetch_weather_for_lgu"
    /\ fw_call.status = "running"
    /\ fw_call.attempt < fw_call.retry_count
    /\ \E response \in ApiResponses : fw_call' = FetchAttempt(fw_call, response)
    /\ UNCHANGED <<script, otherThanFetch>>

\* Line 146: the loop is exhausted.
FwLoopEnd ==
    /\ script = "fetch_weather_for_lgu"
    /\ fw_call.status = "running"
    /\ fw_call.attempt >= fw_call.retry_count
    /\ fw_call' = FetchReturn(fw_call, None)
    /\ UNCHANGED <<script, otherThanFetch>>

\* The caller goes on.
FwExit ==
    /\ script = "fetch_weather_for_lgu"
    /\ fw_call.status = "returned"
    /\ fw_call' = NotRun
    /\ script' = "none"
    /\ UNCHANGED otherThanFetch

NextFetch == FwCall \/ FwAttempt \/ FwLoopEnd \/ FwExit

(***************************************************************************)
(* Claims about the retry loop.                                            *)
(***************************************************************************)
FwRunning == fw_call # NotRun /\ fw_call.status = "running"
FwReturned == fw_call # NotRun /\ fw_call.status = "returned"

\* The requests of the call that were answered with status 200 and 'daily'.
C27_Successes == {i \in DOMAIN fw_call.requests : fw_call.requests[i].kind = "ok"}

\* At most retry_count requests; a retryable failure is the last request
\* only as the retry_count-th one; the result is the data of the first
\* success, None without a success.
C27_FetchBounded ==
    fw_call # NotRun =>
        /\ Len(fw_call.requests) <= fw_call.retry_count
        /\ \A i \in DOMAIN fw_call.requests :
             (fw_call.requests[i].kind \in RetryableKinds /\ i < fw_call.retry_count) =>
                 \/ i < Len(fw_call.requests)
                 \/ FwRunning /\ fw_call.attempt < fw_call.retry_count
        /\ FwReturned =>
             IF C27_Successes = {} THEN fw_call.result = None
             ELSE fw_call.result =
                      Some(fw_call.requests[CHOOSE i \in C27_Successes :
                                                \A j \in C27_Successes : i <= j].daily)

\* C27: fetch_weather_for_lgu ends after at most retry_count requests
\* whatever the API answers: a retryable failure on a non-final attempt is
\* followed by another request, the result is the daily data of the first
\* successful response, and None when no request succeeded.
C27_FetchTerminates == [](C27_FetchBounded) /\ (FwRunning ~> FwReturned)

\* Rate limit, timeout, then the data on the third and last attempt.
C27_Witness ==
    /\ FwReturned
    /\ fw_call.retry_count = 3
    /\ Len(fw_call.requests) = 3
    /\ fw_call.requests[1].kind = "rate_limited"
    /\ fw_call.requests[2].kind = "timeout"
    /\ fw_call.result = Some("daily_b")
    /\ fw_call.slept = <<5, 5>>

(***************************************************************************)
(* collect_historical_weather and main                                     *)
(* (src/backfill/collect_historical_weather.py): the loop over the units,  *)
(* one action per unit, the interruption by the user and the save.         *)
(***************************************************************************)

\* config['lgus'] and the dates of config['date_range'].
CwLgus == <<"Manila", "Pasig", "Taguig">>
CwDates == {<<2025, 9, 1>>, <<2025, 9, 2>>}

\* What fetch_weather_for_lgu returns: None, or daily data whose time array
\* covers every date or the first date only.
CwRawData == {None, Some(CwDates), Some({<<2025, 9, 1>>})}

\* Lines 236-244: results is the existing data, with every date of the
\* range present.
CwInitialResults(existing_data) ==
    [d \in DOMAIN existing_data \cup CwDates |->
        IF d \in DOMAIN existing_data THEN existing_data[d] ELSE {}]

\* Lines 262-265: every date has data for the unit.
HasAllData(results, lgu) == \A d \in CwDates : lgu \in Get(results, d, {})

\* Lines 300-306 with transform_weather_data (lines 149-187): the unit gets
\* its data on the dates of the time array that are in the range.
CwMerge(results, lgu, time_array) ==
    [d \in DOMAIN results |->
        IF d \in time_array /\ d \in CwDates THEN results[d] \cup {lgu} ELSE results[d]]

\* Lines 258-324: the loop body for the unit at the index, raw_data being
\* what the fetch returns if it is called.
CwStep(run, lgu, raw_data) ==
    IF HasAllData(run.results, lgu)
    THEN [run EXCEPT !.index = @ + 1, !.skipped = Append(@, lgu)]
    ELSE IF raw_data # None
    THEN [run EXCEPT !.index = @ + 1,
                     !.api_calls = Append(@, lgu),
                     !.successful = Append(@, lgu),
                     !.results = CwMerge(@, lgu, raw_data[1])]
    ELSE [run EXCEPT !.index = @ + 1,
                     !.api_calls = Append(@, lgu),
                     !.failed = Append(@, lgu)]

IdleCollect == cw_file = None /\ cw_run = NotRun /\ cw_fetched_before = {}

\* main and lines 189-255: the configuration and the existing data are
\* loaded (resume=True).
CwStart ==
    /\ script = "none"
    /\ cw_run = NotRun
    /\ cw_run' = [run |-> TRUE, status |-> "running", index |-> 1,
                  results |-> CwInitialResults(IF cw_file # None THEN cw_file[1]
                                               ELSE EmptyDict),
                  api_calls |-> <<>>, successful |-> <<>>, failed |-> <<>>,
                  skipped |-> <<>>]
    /\ script' = "collect_historical_weather"
    /\ UNCHANGED <<cw_file, cw_fetched_before, otherThanCollect>>

\* One pass of the loop over the units.
CwUnit ==
    /\ script = "collect_historical_weather"
    /\ cw_run.status = "running"
    /\ cw_run.index <= Len(CwLgus)
    /\ \E raw_data \in CwRawData : cw_run' = CwStep(cw_run, CwLgus[cw_run.index], raw_data)
    /\ UNCHANGED <<script, cw_file, cw_fetched_before, otherThanCollect>>

\* main, lines 404-409: the collection returned and the results are saved.
CwSave ==
    /\ script = "collect_historical_weather"
    /\ cw_run.status = "running"
    /\ cw_run.index > Len(CwLgus)
    /\ cw_file' = Some(cw_run.results)
    /\ cw_run' = [cw_run EXCEPT !.status = "complete"]
    /\ UNCHANGED <<script, cw_fetched_before, otherThanCollect>>

\* main, lines 429-432: the user interrupts the loop; the handler prints
\* and returns 1.
CwInterrupt ==
    /\ script = "collect_historical_weather"
    /\ cw_run.status = "running"
    /\ cw_run.index <= Len(CwLgus)
    /\ cw_run' = [cw_run EXCEPT !.status = "interrupted"]
    /\ UNCHANGED <<script, cw_file, cw_fetched_before, otherThanCollect>>

\* The process ends.  What an interrupted run had fetched for every date is
\* remembered, to be compared with the API calls of the runs after it.
CwExit ==
    /\ script = "collect_historical_weather"
    /\ cw_run.status \in {"complete", "interrupted"}
    /\ cw_fetched_before' =
           cw_fetched_before \cup
               {cw_run.successful[i] : i \in {j \in DOMAIN cw_run.successful :
                                                  HasAllData(cw_run.results, cw_run.successful[j])}}
    /\ cw_run' = NotRun
    /\ script' = "none"
    /\ UNCHANGED <<cw_file, otherThanCollect>>

NextCollect == CwStart \/ CwUnit \/ CwSave \/ CwInterrupt \/ CwExit

(***************************************************************************)
(* Claims about the interrupted collection.                                *)
(***************************************************************************)

\* The data of the output file for a unit on a date.
C28_Saved(lgu, d) == cw_file # None /\ lgu \in Get(cw_file[1], d, {})

\* C28: when the collection is interrupted by the user after some units
\* have been fetched, the data of those units is in the output file, and a
\* later run with resume makes no API call for a unit fetched before.  The
\* code saves only after the whole loop.
C28_InterruptKeepsProgress ==
    /\ (cw_run # NotRun /\ cw_run.status = "interrupted") =>
           \A i \in DOMAIN cw_run.successful :
               \A d \in CwDates :
                   cw_run.successful[i] \in cw_run.results[d] =>
                       C28_Saved(cw_run.successful[i], d)
    /\ cw_run # NotRun =>
           \A i \in DOMAIN cw_run.api_calls : cw_run.api_calls[i] \notin cw_fetched_before

(***************************************************************************)
(* upload_to_database (src/backfill/upload_actual_suspensions.py).         *)
(***************************************************************************)

\* The most outcome records of an upload.
MaxRecords == 2

\* The (date, unit) keys of the model.
UpKeys == {<<<<2025, 9, 22>>, "Manila">>, <<<<2025, 9, 22>>, "Pasig">>,
           <<<<2025, 9, 23>>, "Manila">>}

\* A row of daily_predictions as the pipeline logged it, without outcome.
PredictionRow(key) ==
    [id |-> IF key[2] = "Manila" THEN key[1][3] ELSE 100 + key[1][3],
     prediction_date |-> key[1],
     lgu |-> key[2],
     suspension_probability |-> IF key[2] = "Manila" THEN 600000 ELSE 200000,
     predicted_suspended |-> key[2] = "Manila",
     actual_suspended |-> None]

\* prepare_suspension_records (lines 46-71): the records of the file.
SuspensionRecords ==
    {[prediction_date |-> k[1], lgu |-> k[2], actual_suspended |-> a] :
         k \in UpKeys, a \in BOOLEAN}

\* What may go wrong with the database for a record: nothing, the select
\* raises, the update raises.
UpFaults == {"none", "select", "update"}

UpStats == [updated |-> 0, created |-> 0, failed |-> 0, skipped |-> 0]

\* Lines 123-136: no prediction exists for the record.
UpNoPrediction(r) ==
    [r EXCEPT !.stats.skipped = @ + 1, !.stats.created = @ + 1]

\* Lines 107-121: the prediction of the record is updated.
UpUpdate(r, key, actual, fault) ==
    IF fault = "update" THEN [r EXCEPT !.stats.failed = @ + 1]
    ELSE [r EXCEPT !.db[key].actual_suspended = Some(actual),
                   !.stats.updated = @ + 1]

\* Lines 94-140: the loop body.
UpStep(r, record, fault) ==
    IF fault = "select" THEN [r EXCEPT !.stats.failed = @ + 1]
    ELSE IF <<record.prediction_date, record.lgu>> \in DOMAIN r.db
    THEN UpUpdate(r, <<record.prediction_date, record.lgu>>, record.actual_suspended, fault)
    ELSE UpNoPrediction(r)

RECURSIVE UpLoop(_, _, _, _)
UpLoop(r, records, faults, i) ==
    IF i > Len(records) THEN r
    ELSE UpLoop(UpStep(r, records[i], faults[i]), records, faults, i + 1)

\* Lines 74-143: the stats returned and the table afterwards.
upload_to_database(records, db, faults) ==
    UpLoop([run |-> TRUE, stats |-> UpStats, db |-> db], records, faults, 1)

IdleUpload ==
    /\ up_db = EmptyDict
    /\ up_db_before = EmptyDict
    /\ up_records = <<>>
    /\ up_run = NotRun

\* The predictions the pipeline has logged before the upload.
UpLogPredictions ==
    /\ script = "none"
    /\ \E K \in SUBSET UpKeys : up_db' = [k \in K |-> PredictionRow(k)]
    /\ script' = "upload_actual_suspensions"
    /\ UNCHANGED <<up_db_before, up_records, up_run, otherThanUpload>>

\* One more record of the outcome file.
UpPrepareRecord ==
    /\ script = "upload_actual_suspensions"
    /\ up_run = NotRun
    /\ Len(up_records) < MaxRecords
    /\ \E record \in SuspensionRecords : up_records' = Append(up_records, record)
    /\ UNCHANGED <<script, up_db, up_db_before, up_run, otherThanUpload>>

\* One call of upload_to_database; up_db_before keeps the table as it was.
UploadToDatabase ==
    /\ script = "upload_actual_suspensions"
    /\ up_run = NotRun
    /\ \E faults \in [DOMAIN up_records -> UpFaults] :
         LET r == upload_to_database(up_records, up_db, faults)
         IN  /\ up_run' = [run |-> TRUE, stats |-> r.stats, faults |-> faults]
             /\ up_db' = r.db
    /\ up_db_before' = up_db
    /\ UNCHANGED <<script, up_records, otherThanUpload>>

\* The script ends.
UpExit ==
    /\ script = "upload_actual_suspensions"
    /\ up_run # NotRun
    /\ up_db' = EmptyDict
    /\ up_db_before' = EmptyDict
    /\ up_records' = <<>>
    /\ up_run' = NotRun
    /\ script' = "none"
    /\ UNCHANGED otherThanUpload

NextUpload == UpLogPredictions \/ UpPrepareRecord \/ UploadToDatabase \/ UpExit

(***************************************************************************)
(* Claims about the upload of the outcomes.                                *)
(***************************************************************************)

\* The records of the upload that have no prediction in the table.
C29_Unpredicted ==
    {i \in DOMAIN up_records :
        <<up_records[i].prediction_date, up_records[i].lgu>> \notin DOMAIN up_db_before}

\* The update leaves every field of every row but actual_suspended alone
\* and neither adds nor removes a row.
C29_OnlyOutcomeChanged ==
    up_run # NotRun =>
        /\ DOMAIN up_db = DOMAIN up_db_before
        /\ \A k \in DOMAIN up_db :
             [up_db[k] EXCEPT !.actual_suspended = None] = up_db_before[k]

\* C29: every outcome record is counted in exactly one of updated, created,
\* skipped and failed, so the four add up to the number of records; a
\* record without prediction is counted once; an update changes only
\* actual_suspended.  The code counts a record without prediction as
\* skipped and as created.
C29_CountedOnce ==
    up_run # NotRun =>
        /\ up_run.stats.updated + up_run.stats.created + up_run.stats.skipped
               + up_run.stats.failed = Len(up_records)
        /\ up_run.stats.created + up_run.stats.skipped
               = Cardinality({i \in C29_Unpredicted : up_run.faults[i] # "select"})
        /\ C29_OnlyOutcomeChanged

(***************************************************************************)
(* collect_and_log.py, main: the three steps of a run and its exit code.   *)
(* The calls that main makes are recorded with their outcome; a call       *)
(* either returns or raises an Exception.                                  *)
(***************************************************************************)

\* Lines 381-390: results before step 1.
MnInitialResults ==
    [pagasa_success |-> FALSE, pagasa_error |-> FALSE,
     openmeteo_success |-> FALSE, openmeteo_records |-> 0, openmeteo_error |-> FALSE,
     predictions_success |-> FALSE, predictions_count |-> 0, predictions_error |-> FALSE,
     features |-> FALSE, predictions |-> FALSE]

\* What a call can do.  save_predictions_to_web writes latest.json (line 326)
\* and then the timestamped copy (line 335): it can raise before the first
\* write or between the two.
MnOutcomes == {"ok", "raises"}
MnSaveOutcomes == {"ok", "raises", "raises_after_latest"}

MnCall(name, outcome) == [call |-> name, ok |-> outcome = "ok"]

\* Lines 365-378: the two clients are constructed; a failure returns 1.
MnClients(logger, pipeline) ==
    IF logger # "ok" THEN <<MnCall("SupabaseLogger", logger)>>
    ELSE <<MnCall("SupabaseLogger", logger), MnCall("WeatherDataPipeline", pipeline)>>

\* Lines 397-444: step 1.  The status is logged in a try of its own; an
\* exception of the collection leaves features None.
MnStep1Results(results, collect, log_pagasa) ==
    IF collect # "ok"
    THEN [results EXCEPT !.pagasa_error = TRUE, !.openmeteo_error = TRUE,
                         !.features = FALSE]
    ELSE [results EXCEPT !.pagasa_success = (log_pagasa = "ok"),
                         !.pagasa_error = (log_pagasa # "ok"),
                         !.openmeteo_success = TRUE,
                         !.openmeteo_records = Len(ClLgus),
                         !.features = TRUE]

MnStep1Calls(collect, log_pagasa) ==
    IF collect # "ok" THEN <<MnCall("collect_realtime_weather_features", collect)>>
    ELSE <<MnCall("collect_realtime_weather_features", collect),
           MnCall("log_pagasa_status", log_pagasa)>>

\* Lines 60-98: load_model returns a model, or None when no file can be loaded.
MnModels == {"model", "none"}

\* Lines 453-470 and 505-510: the calls of step 2 up to the first exception.
MnStep2Calls(model, generate, log_pred, save) ==
    <<[call |-> "load_model", ok |-> TRUE, model |-> model],
      MnCall("generate_predictions", generate)>>
    \o (IF generate = "ok" THEN <<MnCall("log_predictions", log_pred)>> ELSE <<>>)
    \o (IF generate = "ok" /\ log_pred = "ok"
        THEN <<MnCall("save_predictions_to_web", save)>> ELSE <<>>)

\* Lines 325-338: the files that save_predictions_to_web has written.
MnSaved(save) ==
    CASE save = "ok" -> {"latest.json", "predictions_timestamp.json"}
      [] save = "raises_after_latest" -> {"latest.json"}
      [] OTHER -> {}

\* Lines 451-510: results after the try of step 2.
MnStep2Results(results, generate, log_pred, save) ==
    IF generate = "ok" /\ log_pred = "ok" /\ save = "ok"
    THEN [results EXCEPT !.predictions = TRUE,
                         !.predictions_count = Len(ClLgus),
                         !.predictions_success = TRUE]
    ELSE [results EXCEPT !.predictions = (generate = "ok"),
                         !.predictions_error = TRUE]

\* Lines 517-528: the arguments of log_collection_run.
MnRunLog(run_date, results, outcome) ==
    [call |-> "log_collection_run", ok |-> outcome = "ok",
     run_date |-> run_date,
     pagasa_success |-> results.pagasa_success,
     pagasa_error |-> results.pagasa_error,
     openmeteo_success |-> results.openmeteo_success,
     openmeteo_records |-> results.openmeteo_records,
     openmeteo_error |-> results.openmeteo_error,
     predictions_success |-> results.predictions_success,
     predictions_count |-> results.predictions_count,
     predictions_error |-> results.predictions_error]

\* A return code that does not look at the PAGASA log.
MnExitCode_weather_only(results) ==
    IF results.openmeteo_success /\ results.predictions_success THEN 0 ELSE 1

\* Lines 548-553: the value that main returns.
MnExitCode(results) ==
    IF results.pagasa_success /\ results.openmeteo_success /\ results.predictions_success
    THEN 0 ELSE 1

IdleMain ==
    /\ mn_pc = "idle"
    /\ mn_date = None
    /\ mn_results = MnInitialResults
    /\ mn_calls = <<>>
    /\ mn_web = {}
    /\ mn_exit = None

\* Lines 345-390: the arguments are parsed and the clients are constructed.
MnStart ==
    /\ script = "none"
    /\ mn_pc = "idle"
    /\ \E a \in ClDateArgs, d \in ClTodays, logger \in MnOutcomes, pipeline \in MnOutcomes :
         /\ mn_date' = Some(PredictionDate(a, d))
         /\ mn_calls' = MnClients(logger, pipeline)
         /\ IF logger = "ok" /\ pipeline = "ok"
            THEN mn_pc' = "step1" /\ mn_exit' = None
            ELSE mn_pc' = "returned" /\ mn_exit' = Some(1)
    /\ script' = "main"
    /\ UNCHANGED <<mn_results, mn_web, otherThanMain>>

\* Lines 392-444: step 1.
MnCollect ==
    /\ script = "main"
    /\ mn_pc = "step1"
    /\ \E collect \in MnOutcomes, log_pagasa \in MnOutcomes :
         /\ mn_results' = MnStep1Results(mn_results, collect, log_pagasa)
         /\ mn_calls' = mn_calls \o MnStep1Calls(collect, log_pagasa)
    /\ mn_pc' = "step2"
    /\ UNCHANGED <<script, mn_date, mn_web, mn_exit, otherThanMain>>

\* Lines 446-510: step 2, entered when features is not None.
MnPredict ==
    /\ script = "main"
    /\ mn_pc = "step2"
    /\ mn_results.features
    /\ \E model \in MnModels, generate \in MnOutcomes, log_pred \in MnOutcomes,
          save \in MnSaveOutcomes :
         /\ mn_results' = MnStep2Results(mn_results, generate, log_pred, save)
         /\ mn_calls' = mn_calls \o MnStep2Calls(model, generate, log_pred, save)
         /\ mn_web' = IF generate = "ok" /\ log_pred = "ok" THEN MnSaved(save) ELSE {}
    /\ mn_pc' = "step3"
    /\ UNCHANGED <<script, mn_date, mn_exit, otherThanMain>>

\* Lines 511-512: step 2 is skipped.
MnSkip ==
    /\ script = "main"
    /\ mn_pc = "step2"
    /\ ~mn_results.features
    /\ mn_pc' = "step3"
    /\ UNCHANGED <<script, mn_date, mn_results, mn_calls, mn_web, mn_exit, otherThanMain>>

\* Lines 514-553: step 3 and the return.
MnLogRun ==
    /\ script = "main"
    /\ mn_pc = "step3"
    /\ \E log_run \in MnOutcomes :
         mn_calls' = Append(mn_calls, MnRunLog(mn_date[1], mn_results, log_run))
    /\ mn_exit' = Some(MnExitCode(mn_results))
    /\ mn_pc' = "returned"
    /\ UNCHANGED <<script, mn_date, mn_results, mn_web, otherThanMain>>

\* Lines 556-557: the process ends.
MnExit ==
    /\ script = "main"
    /\ mn_pc = "returned"
    /\ script' = "none"
    /\ mn_pc' = "idle"
    /\ mn_date' = None
    /\ mn_results' = MnInitialResults
    /\ mn_calls' = <<>>
    /\ mn_web' = {}
    /\ mn_exit' = None
    /\ UNCHANGED otherThanMain

NextMain == MnStart \/ MnCollect \/ MnPredict \/ MnSkip \/ MnLogRun \/ MnExit

(***************************************************************************)
(* Claims about main.                                                      *)
(***************************************************************************)
MnMade(name) == {i \in DOMAIN mn_calls : mn_calls[i].call = name}
MnSucceeded(name) == \E i \in MnMade(name) : mn_calls[i].ok
MnInitialized == MnSucceeded("SupabaseLogger") /\ MnSucceeded("WeatherDataPipeline")
MnReturned == mn_exit # None /\ MnInitialized

\* The exit code is 0 exactly when every call of steps 1 and 2 returned.
C30_ExitCode ==
    MnReturned =>
        (mn_exit[1] = 0 <=>
            /\ MnSucceeded("log_pagasa_status")
            /\ MnSucceeded("collect_realtime_weather_features")
            /\ MnSucceeded("generate_predictions")
            /\ MnSucceeded("log_predictions")
            /\ MnSucceeded("save_predictions_to_web"))

\* No call of step 2 is made after a failed collection.
C30_Skipped ==
    (MnMade("collect_realtime_weather_features") # {}
     /\ ~MnSucceeded("collect_realtime_weather_features"))
        => /\ MnMade("load_model") = {}
           /\ MnMade("generate_predictions") = {}
           /\ MnMade("log_predictions") = {}
           /\ MnMade("save_predictions_to_web") = {}
           /\ mn_web = {}

\* A file is written only by a save that follows a successful upsert.
C30_SaveAfterUpsert ==
    /\ mn_web # {} => MnSucceeded("log_predictions")
    /\ \A s \in MnMade("save_predictions_to_web") :
          \E u \in MnMade("log_predictions") : u < s /\ mn_calls[u].ok

\* log_collection_run is called once by the time main returns, and never
\* before step 3.
C30_RunLoggedOnce ==
    /\ MnReturned => Cardinality(MnMade("log_collection_run")) = 1
    /\ (MnInitialized /\ mn_exit = None) => MnMade("log_collection_run") = {}

\* C30: once both clients are constructed, main returns 0 exactly when the
\* PAGASA status was logged, the features were collected and the predictions
\* were generated, upserted and saved; step 2 is skipped after a failed
\* collection; latest.json is written only after a successful upsert; and
\* log_collection_run is attempted exactly once whatever failed before it.
C30_MainOutcome ==
    /\ C30_ExitCode
    /\ C30_Skipped
    /\ C30_SaveAfterUpsert
    /\ C30_RunLoggedOnce

\* A run that returned 1 although the predictions were generated, upserted
\* and saved: only the PAGASA log failed, and the run was still logged.
C30_Witness ==
    /\ MnReturned
    /\ mn_exit = Some(1)
    /\ ~MnSucceeded("log_pagasa_status")
    /\ MnSucceeded("save_predictions_to_web")
    /\ "latest.json" \in mn_web
    /\ Cardinality(MnMade("log_collection_run")) = 1

(***************************************************************************)
(* Specifications.                                                         *)
(***************************************************************************)
Init == script = "none" /\ IdleTier /\ IdlePerf /\ IdleAn /\ IdleEf /\ IdleName
        /\ IdleTemporal /\ IdleMatch /\ IdleCl
        /\ IdleChecker
        /\ IdleBatch
        /\ IdleDetails
        /\ IdleFetch
        /\ IdleCollect
        /\ IdleUpload
        /\ IdleMain

SpecTier == Init /\ [][NextTier]_vars
SpecPerf == Init /\ [][NextPerf]_vars
SpecAnalyze == Init /\ [][NextAnalyze]_vars
SpecMetrics == Init /\ [][NextPerf \/ NextAnalyze]_vars
SpecFeatures == Init /\ [][NextFeatures]_vars
SpecValidate == Init /\ [][NextValidate]_vars
SpecGate == Init /\ [][NextGate]_vars
SpecNames == Init /\ [][NextNames]_vars
SpecTemporal == Init /\ [][NextTemporal]_vars
SpecMatch == Init /\ [][NextMatch]_vars
SpecRealtime == Init /\ [][NextRealtime]_vars
SpecChecker == Init /\ [][NextChecker]_vars
SpecBatch == Init /\ [][NextBatch]_vars
SpecDetails == Init /\ [][NextDetails]_vars
SpecFetch == Init /\ [][NextFetch]_vars
\* The loop of fetch_weather_for_lgu goes on: every request has a timeout
\* and every sleep is finite.
SpecFetchLive == SpecFetch /\ WF_vars(FwAttempt) /\ WF_vars(FwLoopEnd)
SpecCollect == Init /\ [][NextCollect]_vars
SpecUpload == Init /\ [][NextUpload]_vars
SpecMain == Init /\ [][NextMain]_vars

====
